---------------------------- MODULE Spec2Model ----------------------------
(***************************************************************************)
(* The operation dispatcher of the chatgpt-interactor extension: the       *)
(* handler of src/src/api.ts (current revision) and of src/unnamed/part_000*)
(* (earlier revision), as a state machine.  One action is one synchronous  *)
(* segment of the async handler: JavaScript runs the code between two      *)
(* awaits to completion, so a segment is atomic.  The upstream client      *)
(* (OpenAI SDK) is the environment: each awaited call returns or throws.   *)
(*                                                                         *)
(* Text whose characters the handler inspects (base64 payloads, data URLs, *)
(* the JSON text of file_base64_array) is a sequence of one-character      *)
(* strings; text the handler only tests for emptiness and forwards is a    *)
(* TLA+ string.  An option bag is a function whose domain is the set of    *)
(* option names that are present (an absent key is JavaScript undefined).  *)
(***************************************************************************)
EXTENDS Integers, Sequences, FiniteSets, TLC

(***************************************************************************)
(* JavaScript values that can sit in a file list or come out of JSON.parse *)
(***************************************************************************)
Str(chars) == [t |-> "string", v |-> chars]
Arr(items) == [t |-> "array", v |-> items]
Num(n) == [t |-> "number", v |-> n]
Bool(b) == [t |-> "boolean", v |-> b]
Null == [t |-> "null"]
Obj == [t |-> "object"]
Undefined == [t |-> "undefined"]

\* JavaScript truthiness of a tagged value.
Truthy(x) ==
    CASE x.t = "string" -> x.v /= <<>>
      [] x.t = "array" -> TRUE
      [] x.t = "object" -> TRUE
      [] x.t = "number" -> x.v /= 0
      [] x.t = "boolean" -> x.v
      [] OTHER -> FALSE

\* x.length: a number for strings and arrays, undefined for the other
\* non-null values.  Reading it from null or undefined is a TypeError, which
\* the callers test with IsNullish before they use LengthOf.
IsNullish(x) == x.t \in {"null", "undefined"}

LengthOf(x) ==
    IF x.t \in {"string", "array"} THEN Num(Len(x.v)) ELSE Undefined

\* x[i] for the 0-based index i of the file loops: an element of an array, a
\* one-character string of a string.
ElementAt(x, i) ==
    CASE x.t = "array" -> x.v[i + 1]
      [] x.t = "string" -> Str(<<x.v[i + 1]>>)
      [] OTHER -> Undefined

(***************************************************************************)
(* String primitives                                                       *)
(***************************************************************************)
Min(a, b) == IF a <= b THEN a ELSE b

\* String.prototype.startsWith
StartsWith(s, prefix) ==
    /\ Len(s) >= Len(prefix)
    /\ SubSeq(s, 1, Len(prefix)) = prefix

\* String.prototype.substring(0, n)
Substring0(s, n) == SubSeq(s, 1, Min(n, Len(s)))

\* s.substring(from) for a 1-based position from
DropTo(s, from) == SubSeq(s, from, Len(s))

\* The least element of a non-empty set of numbers.
Least(S) == CHOOSE p \in S : \A q \in S : p <= q

\* The positions of s at which the text pat starts.
Occurrences(s, pat) ==
    {p \in 1..(Len(s) - Len(pat) + 1) : SubSeq(s, p, p + Len(pat) - 1) = pat}

RECURSIVE ReplaceAll(_, _, _)
\* String.prototype.replace with a global pattern that matches the literal
\* text pat: the leftmost match is replaced and the scan goes on behind it,
\* so matches do not overlap and the replacement is not scanned again.
ReplaceAll(s, pat, rep) ==
    IF Occurrences(s, pat) = {} THEN s
    ELSE LET p == Least(Occurrences(s, pat)) IN
         SubSeq(s, 1, p - 1) \o rep
             \o ReplaceAll(DropTo(s, p + Len(pat)), pat, rep)

\* The characters the regular expression class \s matches, among those the
\* model's texts use.
Whitespace == {" ", "\n", "\t", "\r"}

\* s.replace(/\s+/g, '')
StripWhitespace(s) == SelectSeq(s, LAMBDA c : c \notin Whitespace)

Base64Alphabet ==
    {"A", "B", "C", "D", "E", "F", "G", "H", "I", "J", "K", "L", "M",
     "N", "O", "P", "Q", "R", "S", "T", "U", "V", "W", "X", "Y", "Z",
     "a", "b", "c", "d", "e", "f", "g", "h", "i", "j", "k", "l", "m",
     "n", "o", "p", "q", "r", "s", "t", "u", "v", "w", "x", "y", "z",
     "0", "1", "2", "3", "4", "5", "6", "7", "8", "9", "+", "/"}

MaxPadding == 2

\* /^[A-Za-z0-9+/]*={0,2}$/.test(s): alphabet characters, then at most two
\* '=' signs, then the end of the text.
base64Regex(s) ==
    \E pad \in 0..Min(MaxPadding, Len(s)) :
        /\ \A k \in 1..(Len(s) - pad) : s[k] \in Base64Alphabet
        /\ \A k \in (Len(s) - pad + 1)..Len(s) : s[k] = "="

(***************************************************************************)
(* JSON.parse, for the JSON texts of the model: strings with the           *)
(* two-character escapes, integers, the three literals, arrays (nested),   *)
(* the empty object, and blanks between tokens.  Any other text is a       *)
(* SyntaxError.                                                            *)
(***************************************************************************)
ParseFail == [ok |-> FALSE]
ParseOk(val, next) == [ok |-> TRUE, val |-> val, next |-> next]

Digits == {"0", "1", "2", "3", "4", "5", "6", "7", "8", "9"}

DigitValue(c) ==
    CASE c = "0" -> 0 [] c = "1" -> 1 [] c = "2" -> 2 [] c = "3" -> 3
      [] c = "4" -> 4 [] c = "5" -> 5 [] c = "6" -> 6 [] c = "7" -> 7
      [] c = "8" -> 8 [] c = "9" -> 9

\* The character an escape sequence \c stands for; backspace and form feed
\* have no TLA+ notation and are written as named tokens.
EscapeTable ==
    [c \in {"\"", "\\", "/", "b", "f", "n", "r", "t"} |->
        CASE c = "\"" -> "\""
          [] c = "\\" -> "\\"
          [] c = "/" -> "/"
          [] c = "b" -> "<BS>"
          [] c = "f" -> "<FF>"
          [] c = "n" -> "\n"
          [] c = "r" -> "\r"
          [] c = "t" -> "\t"]

ControlChars == {"\n", "\r", "\t", "<BS>", "<FF>"}

RECURSIVE SkipBlanks(_, _)
SkipBlanks(s, p) ==
    IF p <= Len(s) /\ s[p] \in Whitespace THEN SkipBlanks(s, p + 1) ELSE p

\* The positions at or after p of the characters that end a run of plain
\* characters inside a JSON string: the closing quote, a backslash, a
\* control character.
StringStops(s, p) ==
    {q \in p..Len(s) : s[q] \in {"\"", "\\"} \cup ControlChars}

RECURSIVE ParseStringBody(_, _, _)
\* The characters of a JSON string from position p (after the opening
\* quote) to its closing quote; acc holds the characters read so far.
ParseStringBody(s, p, acc) ==
    IF StringStops(s, p) = {} THEN ParseFail
    ELSE LET q == Least(StringStops(s, p))
             plain == acc \o SubSeq(s, p, q - 1)
         IN  IF s[q] = "\"" THEN ParseOk(Str(plain), q + 1)
             ELSE IF s[q] = "\\"
             THEN IF q + 1 <= Len(s) /\ s[q + 1] \in DOMAIN EscapeTable
                  THEN ParseStringBody(s, q + 2,
                           Append(plain, EscapeTable[s[q + 1]]))
                  ELSE ParseFail
             ELSE ParseFail

RECURSIVE ParseDigits(_, _, _)
ParseDigits(s, p, n) ==
    IF p <= Len(s) /\ s[p] \in Digits
    THEN ParseDigits(s, p + 1, 10 * n + DigitValue(s[p]))
    ELSE ParseOk(Num(n), p)

\* An integer without sign, fraction or exponent; a leading zero ends it.
ParseNumber(s, p) ==
    IF s[p] = "0" THEN ParseOk(Num(0), p + 1) ELSE ParseDigits(s, p, 0)

ParseLiteral(s, p, word, val) ==
    IF StartsWith(DropTo(s, p), word) THEN ParseOk(val, p + Len(word))
    ELSE ParseFail

RECURSIVE ParseValue(_, _)
RECURSIVE ParseItems(_, _, _)

\* The elements of an array after its first: ", value" repeated, then "]".
ParseItems(s, p, acc) ==
    LET q == SkipBlanks(s, p) IN
    IF q > Len(s) THEN ParseFail
    ELSE IF s[q] = "]" THEN ParseOk(Arr(acc), q + 1)
    ELSE IF s[q] = ","
         THEN LET item == ParseValue(s, SkipBlanks(s, q + 1)) IN
              IF item.ok THEN ParseItems(s, item.next, Append(acc, item.val))
              ELSE ParseFail
    ELSE ParseFail

ParseArray(s, p) ==
    LET q == SkipBlanks(s, p + 1) IN
    IF q > Len(s) THEN ParseFail
    ELSE IF s[q] = "]" THEN ParseOk(Arr(<<>>), q + 1)
    ELSE LET first == ParseValue(s, q) IN
         IF first.ok THEN ParseItems(s, first.next, <<first.val>>)
         ELSE ParseFail

ParseObject(s, p) ==
    LET q == SkipBlanks(s, p + 1) IN
    IF q <= Len(s) /\ s[q] = "}" THEN ParseOk(Obj, q + 1) ELSE ParseFail

ParseValue(s, p) ==
    IF p > Len(s) THEN ParseFail
    ELSE CASE s[p] = "\"" -> ParseStringBody(s, p + 1, <<>>)
           [] s[p] = "[" -> ParseArray(s, p)
           [] s[p] = "{" -> ParseObject(s, p)
           [] s[p] \in Digits -> ParseNumber(s, p)
           [] s[p] = "n" -> ParseLiteral(s, p, <<"n", "u", "l", "l">>, Null)
           [] s[p] = "t" -> ParseLiteral(s, p, <<"t", "r", "u", "e">>, Bool(TRUE))
           [] s[p] = "f" -> ParseLiteral(s, p, <<"f", "a", "l", "s", "e">>, Bool(FALSE))
           [] OTHER -> ParseFail

\* JSON.parse(text): [ok |-> TRUE, val |-> value], or [ok |-> FALSE] where
\* JSON.parse throws a SyntaxError.
JSONParse(text) ==
    LET r == ParseValue(text, SkipBlanks(text, 1)) IN
    IF r.ok /\ SkipBlanks(text, r.next) > Len(text)
    THEN [ok |-> TRUE, val |-> r.val]
    ELSE ParseFail

(***************************************************************************)
(* The option bag and its destructuring (api.ts 75-105, part_000 65-85)    *)
(***************************************************************************)
Has(o, f) == f \in DOMAIN o

\* !!o[f] for an option holding opaque text
TruthyText(o, f) == Has(o, f) /\ o[f] /= ""

\* !!o[f] for an option holding inspected text (a character sequence)
TruthyChars(o, f) == Has(o, f) /\ o[f] /= <<>>

\* operation_type with the default of the earlier form, chat_completion.
operation_typeLegacy(o) ==
    IF Has(o, "operation_type") THEN o.operation_type ELSE "chat_completion"

operation_type(o) ==
    IF Has(o, "operation_type") THEN o.operation_type ELSE "text_generation"

model(o) == IF Has(o, "model") THEN o.model ELSE "gpt-4o-mini"

enable_web_search(o) ==
    IF Has(o, "enable_web_search") THEN o.enable_web_search ELSE FALSE

response_format(o) ==
    IF Has(o, "response_format") THEN o.response_format ELSE "text"

max_output_tokens(o) ==
    IF Has(o, "max_output_tokens") THEN o.max_output_tokens ELSE 1000

image_size(o) == IF Has(o, "image_size") THEN o.image_size ELSE "1024x1024"

image_quality(o) ==
    IF Has(o, "image_quality") THEN o.image_quality ELSE "standard"

image_style(o) == IF Has(o, "image_style") THEN o.image_style ELSE "vivid"

store_response(o) ==
    IF Has(o, "store_response") THEN o.store_response ELSE TRUE

(***************************************************************************)
(* Errors and the result envelope                                          *)
(***************************************************************************)
\* new Error(msg)
NewError(msg) == [kind |-> "Error", name |-> "Error", message |-> msg]

\* A TypeError the engine raises (calling a missing method, reading a
\* property of null).
NewTypeError(msg) == [kind |-> "Error", name |-> "TypeError", message |-> msg]

getErrorMessage(error) ==
    IF error.kind = "Error" THEN error.message
    ELSE IF error.kind = "string" THEN error.value
    ELSE "Unknown error occurred"

\* getErrorType with the fault of reporting the kind of a value that is no
\* Error instead of UnknownError.
getErrorTypeOfKind(error) ==
    IF error.kind = "Error" THEN error.name ELSE error.kind

getErrorType(error) ==
    IF error.kind = "Error" THEN error.name ELSE "UnknownError"

\* ErrorResult with the fault of a catch block that keeps the payload of a
\* success next to the error.
ErrorResultWithData(error, o) ==
    [success |-> FALSE,
     data |-> [x \in {} |-> x],
     error |-> [message |-> getErrorMessage(error),
                type |-> getErrorType(error),
                operation_type |-> operation_type(o),
                model |-> model(o)]]

\* The object the catch block returns.
ErrorResult(error, o) ==
    [success |-> FALSE,
     error |-> [message |-> getErrorMessage(error),
                type |-> getErrorType(error),
                operation_type |-> operation_type(o),
                model |-> model(o)]]

\* What a synchronous segment of the handler ends with: a throw, or an
\* awaited upstream call.
Throw(error) == [kind |-> "throw", error |-> error]
Await(api, params) == [kind |-> "await", api |-> api, params |-> params]

(***************************************************************************)
(* Pieces of request building the variants repeat                          *)
(***************************************************************************)
\* SystemMessage with the fault of a system message shared between the
\* variants: without the variant's own field, system_message is used.
SystemMessageShared(o, field) ==
    IF TruthyText(o, field)
    THEN <<[role |-> "system", content |-> o[field]]>>
    ELSE IF TruthyText(o, "system_message")
    THEN <<[role |-> "system", content |-> o.system_message]>>
    ELSE <<>>

\* SystemMessage with the fault of a system message that is always sent,
\* empty when the field is.
SystemMessageAlways(o, field) ==
    <<[role |-> "system", content |-> IF Has(o, field) THEN o[field] ELSE ""]>>

SystemMessage(o, field) ==
    IF TruthyText(o, field)
    THEN <<[role |-> "system", content |-> o[field]]>>
    ELSE <<>>

UserMessage(content) == <<[role |-> "user", content |-> content]>>

JsonSchemaRequired ==
    "JSON schema is required when response format is json_schema"

\* HandleResponseFormat with the fault of a block that handles json_schema
\* alone.
HandleResponseFormatSchemaOnly(o, params, name) ==
    IF response_format(o) = "json_schema"
    THEN IF ~Has(o, "json_schema")
         THEN Throw(NewError(JsonSchemaRequired))
         ELSE [kind |-> "ok",
               params |-> params @@
                   ("response_format" :>
                       [type |-> "json_schema",
                        json_schema |-> [name |-> name,
                                         schema |-> o.json_schema,
                                         strict |-> TRUE]])]
    ELSE [kind |-> "ok", params |-> params]

\* The "Handle response format" block: the parameters with the
\* response-shaping directive attached, or the throw of the missing schema.
HandleResponseFormat(o, params, name) ==
    IF response_format(o) = "json_object"
    THEN [kind |-> "ok",
          params |-> params @@ ("response_format" :> [type |-> "json_object"])]
    ELSE IF response_format(o) = "json_schema"
    THEN IF ~Has(o, "json_schema")
         THEN Throw(NewError(JsonSchemaRequired))
         ELSE [kind |-> "ok",
               params |-> params @@
                   ("response_format" :>
                       [type |-> "json_schema",
                        json_schema |-> [name |-> name,
                                         schema |-> o.json_schema,
                                         strict |-> TRUE]])]
    ELSE [kind |-> "ok", params |-> params]

\* AttachPrevious with the fault of a variant that forgets the conversation
\* handle.
AttachPreviousNever(o, params) == params

\* if (previous_response_id) params.previous_response_id = ...
AttachPrevious(o, params) ==
    IF TruthyText(o, "previous_response_id")
    THEN params @@ ("previous_response_id" :> o.previous_response_id)
    ELSE params

\* The file_search tool entry.
FileSearchTools(o) ==
    <<[type |-> "file_search", vector_store_ids |-> o.vector_store_ids]>>

\* !vector_store_ids || vector_store_ids.length === 0
NoVectorStores(o) ==
    ~Has(o, "vector_store_ids") \/ Len(o.vector_store_ids) = 0

HeaderLength == 20

InvalidBase64 ==
    "Invalid base64 format detected. Please ensure the input is correctly encoded in base64 format."

\* Image format sniffing of image_analysis and file_search_with_image.
imageFormat(image_base64) ==
    LET base64Header == Substring0(image_base64, HeaderLength) IN
    IF StartsWith(base64Header, <<"/", "9", "j", "/">>) \/ StartsWith(base64Header, <<"i", "V", "B", "O">>)
    THEN IF StartsWith(base64Header, <<"/", "9", "j", "/">>) THEN <<"j", "p", "e", "g">> ELSE <<"p", "n", "g">>
    ELSE IF StartsWith(base64Header, <<"U", "k", "l", "G", "R">>) THEN <<"w", "e", "b", "p">>
    ELSE IF StartsWith(base64Header, <<"R", "0", "l", "G", "O", "D">>) THEN <<"g", "i", "f">>
    ELSE <<"p", "n", "g">>

\* ImageContent with the fault of a block that tests image_base64 first:
\* the base64 text is validated and used even when a URL is given.
ImageContentBase64First(o) ==
    IF TruthyChars(o, "image_base64")
    THEN IF StartsWith(o.image_base64, <<"d", "a", "t", "a", ":", "i", "m", "a", "g", "e", "/">>)
         THEN [kind |-> "ok",
               items |-> <<[type |-> "input_image",
                            image_url |-> o.image_base64,
                            detail |-> "high"]>>]
         ELSE LET cleanBase64 == StripWhitespace(o.image_base64) IN
              IF ~base64Regex(cleanBase64)
              THEN Throw(NewError(InvalidBase64))
              ELSE [kind |-> "ok",
                    items |-> <<[type |-> "input_image",
                                 image_url |-> <<"d", "a", "t", "a", ":", "i", "m", "a", "g", "e", "/">>
                                     \o imageFormat(o.image_base64)
                                     \o <<";", "b", "a", "s", "e", "6", "4", ",">> \o cleanBase64,
                                 detail |-> "high"]>>]
    ELSE IF TruthyChars(o, "image_url")
    THEN [kind |-> "ok",
          items |-> <<[type |-> "input_image", image_url |-> o.image_url,
                       detail |-> "high"]>>]
    ELSE [kind |-> "ok", items |-> <<>>]

\* The "Add image content" block of image_analysis and
\* file_search_with_image: the input_image items to push (one, or none), or
\* the throw of the base64 validation.
ImageContent(o) ==
    IF TruthyChars(o, "image_url")
    THEN [kind |-> "ok",
          items |-> <<[type |-> "input_image", image_url |-> o.image_url,
                       detail |-> "high"]>>]
    ELSE IF TruthyChars(o, "image_base64")
    THEN IF StartsWith(o.image_base64, <<"d", "a", "t", "a", ":", "i", "m", "a", "g", "e", "/">>)
         THEN [kind |-> "ok",
               items |-> <<[type |-> "input_image",
                            image_url |-> o.image_base64,
                            detail |-> "high"]>>]
         ELSE LET cleanBase64 == StripWhitespace(o.image_base64) IN
              IF ~base64Regex(cleanBase64)
              THEN Throw(NewError(InvalidBase64))
              ELSE [kind |-> "ok",
                    items |-> <<[type |-> "input_image",
                                 image_url |-> <<"d", "a", "t", "a", ":", "i", "m", "a", "g", "e", "/">>
                                     \o imageFormat(o.image_base64)
                                     \o <<";", "b", "a", "s", "e", "6", "4", ",">> \o cleanBase64,
                                 detail |-> "high"]>>]
    ELSE [kind |-> "ok", items |-> <<>>]

(***************************************************************************)
(* The variants up to their main upstream call                             *)
(***************************************************************************)
\* case 'text_generation'; sysField is system_message_text in api.ts and
\* system_message in part_000.
TextGeneration(o, sysField) ==
    IF ~TruthyText(o, "user_message")
    THEN Throw(NewError("User message is required for text generation"))
    ELSE
    LET input == SystemMessage(o, sysField) \o UserMessage(o.user_message)
        tools == IF enable_web_search(o)
                 THEN <<[type |-> "web_search_preview"]>> ELSE <<>>
        base == [model |-> model(o), input |-> input,
                 max_output_tokens |-> max_output_tokens(o),
                 store |-> store_response(o)]
        withTools == IF Len(tools) > 0 THEN base @@ ("tools" :> tools)
                     ELSE base
        shaped == HandleResponseFormat(o, withTools, "response")
    IN  IF shaped.kind = "throw" THEN shaped
        ELSE Await("responses.create", AttachPrevious(o, shaped.params))

DallEModels == {"dall-e-2", "dall-e-3"}

\* case 'image_generation'
ImageGeneration(o) ==
    IF ~TruthyText(o, "image_prompt")
    THEN Throw(NewError("Image description is required for image generation"))
    ELSE
    LET params ==
            [model |-> IF model(o) \in DallEModels THEN model(o)
                       ELSE "dall-e-3",
             input |-> UserMessage(o.image_prompt),
             tools |-> <<[type |-> "image_generation",
                          size |-> image_size(o),
                          quality |-> image_quality(o),
                          style |-> image_style(o)]>>,
             store |-> store_response(o)]
    IN  Await("responses.create", AttachPrevious(o, params))

DefaultAnalysisPrompt ==
    "Please analyze this image and describe what you see, including any text, objects, colors, composition, and other notable features."

\* case 'image_analysis'
ImageAnalysis(o) ==
    IF ~TruthyChars(o, "image_url") /\ ~TruthyChars(o, "image_base64")
    THEN Throw(NewError("Image URL or image base64 is required for image analysis"))
    ELSE
    LET text == IF TruthyText(o, "analysis_prompt") THEN o.analysis_prompt
                ELSE DefaultAnalysisPrompt
        image == ImageContent(o)
    IN  IF image.kind = "throw" THEN image
        ELSE
        LET userContent == <<[type |-> "input_text", text |-> text]>>
                               \o image.items
            analysisInput == SystemMessage(o, "system_message_image")
                                 \o UserMessage(userContent)
            base == [model |-> IF model(o) /= "" THEN model(o)
                               ELSE "gpt-4o-mini",
                     input |-> analysisInput,
                     max_output_tokens |-> max_output_tokens(o),
                     store |-> store_response(o)]
            shaped == HandleResponseFormat(o, base, "analysis_response")
        IN  IF shaped.kind = "throw" THEN shaped
            ELSE Await("responses.create", AttachPrevious(o, shaped.params))

\* FileSearch with the fault of checking the vector stores before the
\* query.
FileSearchStoresFirst(o, withSystem) ==
    IF NoVectorStores(o)
    THEN Throw(NewError("Vector store IDs are required for file search"))
    ELSE IF ~TruthyText(o, "search_query")
    THEN Throw(NewError("Search query is required for file search"))
    ELSE
    LET system == IF withSystem THEN SystemMessage(o, "system_message_file")
                  ELSE <<>>
        params == [model |-> model(o),
                   input |-> system \o UserMessage(o.search_query),
                   tools |-> FileSearchTools(o),
                   store |-> store_response(o)]
    IN  Await("responses.create", AttachPrevious(o, params))

\* case 'file_search'; part_000 sends no system message (withSystem FALSE).
FileSearch(o, withSystem) ==
    IF ~TruthyText(o, "search_query")
    THEN Throw(NewError("Search query is required for file search"))
    ELSE IF NoVectorStores(o)
    THEN Throw(NewError("Vector store IDs are required for file search"))
    ELSE
    LET system == IF withSystem THEN SystemMessage(o, "system_message_file")
                  ELSE <<>>
        params == [model |-> model(o),
                   input |-> system \o UserMessage(o.search_query),
                   tools |-> FileSearchTools(o),
                   store |-> store_response(o)]
    IN  Await("responses.create", AttachPrevious(o, params))

\* case 'file_search_with_image'
FileSearchWithImage(o) ==
    IF ~TruthyText(o, "search_query")
    THEN Throw(NewError("Search query is required for file search with image"))
    ELSE IF NoVectorStores(o)
    THEN Throw(NewError("Vector store IDs are required for file search with image"))
    ELSE IF ~TruthyChars(o, "image_url") /\ ~TruthyChars(o, "image_base64")
    THEN Throw(NewError("Image URL or image base64 is required for file search with image"))
    ELSE
    LET image == ImageContent(o) IN
    IF image.kind = "throw" THEN image
    ELSE
    LET userContentWithImage ==
            <<[type |-> "input_text", text |-> o.search_query]>> \o image.items
        base == [model |-> IF model(o) /= "" THEN model(o) ELSE "gpt-4o-mini",
                 input |-> SystemMessage(o, "system_message_file_image")
                               \o UserMessage(userContentWithImage),
                 tools |-> FileSearchTools(o),
                 max_output_tokens |-> max_output_tokens(o),
                 store |-> store_response(o)]
        shaped == HandleResponseFormat(o, base,
                                       "file_search_with_image_response")
    IN  IF shaped.kind = "throw" THEN shaped
        ELSE Await("responses.create", AttachPrevious(o, shaped.params))

\* CodeInterpreter with the fault of a case that does not check its
\* required field.
CodeInterpreterUnchecked(o) ==
    Await("responses.create",
          AttachPrevious(o,
              [model |-> model(o),
               input |-> UserMessage(IF Has(o, "code_input") THEN o.code_input
                                     ELSE Undefined),
               tools |-> <<[type |-> "code_interpreter"]>>,
               store |-> store_response(o)]))

\* case 'code_interpreter'
CodeInterpreter(o) ==
    IF ~TruthyText(o, "code_input")
    THEN Throw(NewError("Code input is required for code interpretation"))
    ELSE Await("responses.create",
               AttachPrevious(o,
                   [model |-> model(o),
                    input |-> UserMessage(o.code_input),
                    tools |-> <<[type |-> "code_interpreter"]>>,
                    store |-> store_response(o)]))

EmbeddingModels == {"text-embedding-3-small", "text-embedding-3-large"}

\* case 'embeddings'
Embeddings(o) ==
    IF ~TruthyText(o, "text_input")
    THEN Throw(NewError("Text is required for embeddings"))
    ELSE Await("embeddings.create",
               [model |-> IF model(o) \in EmbeddingModels THEN model(o)
                          ELSE "text-embedding-3-small",
                input |-> o.text_input])

\* Moderation with the fault of a case that does not check its required
\* field.
ModerationUnvalidated(o) ==
    Await("moderations.create",
          [model |-> "omni-moderation-latest",
           input |-> IF Has(o, "text_input") THEN o.text_input
                     ELSE Undefined])

\* case 'moderation'
Moderation(o) ==
    IF ~TruthyText(o, "text_input")
    THEN Throw(NewError("Text is required for moderation"))
    ELSE Await("moderations.create",
               [model |-> "omni-moderation-latest", input |-> o.text_input])

\* case 'list_models'
ListModels == Await("models.list", [x \in {} |-> x])

(***************************************************************************)
(* The file variants                                                       *)
(***************************************************************************)
\* unescapedString with the fault of a parse of the text as it came.
unescapedStringRaw(text) == text

\* The three replace calls that undo double escaping.
unescapedString(text) ==
    ReplaceAll(ReplaceAll(ReplaceAll(text, <<"\\", "\"">>, <<"\"">>), <<"\\", "/">>, <<"/">>), <<"\\", "\\">>, <<"\\">>)

\* "Handle file_base64_array when it's sent as a JSON string": the value of
\* parsedFileBase64Array (parsedFileBase64ArrayForAnalysis in file_analysis).
parsedFileBase64Array(o) ==
    IF Has(o, "file_base64_array") /\ Truthy(o.file_base64_array)
    THEN IF o.file_base64_array.t = "string"
         THEN LET parsed == JSONParse(unescapedString(o.file_base64_array.v))
              IN  IF parsed.ok THEN parsed.val
                  ELSE Arr(<<o.file_base64_array>>)
         ELSE o.file_base64_array
    ELSE Arr(<<>>)

NullLength == "Cannot read properties of null (reading 'length')"

\* MIME sniffing of file_analysis.
mimeType(base64Data) ==
    LET header == Substring0(base64Data, HeaderLength) IN
    IF StartsWith(header, <<"/", "9", "j", "/">>) \/ StartsWith(header, <<"i", "V", "B", "O">>)
    THEN <<"i", "m", "a", "g", "e", "/", "j", "p", "e", "g">>
    ELSE IF StartsWith(header, <<"i", "V", "B", "O", "R", "w", "0", "K", "G", "g", "o">>) THEN <<"i", "m", "a", "g", "e", "/", "p", "n", "g">>
    ELSE IF StartsWith(header, <<"U", "k", "l", "G", "R">>) THEN <<"i", "m", "a", "g", "e", "/", "w", "e", "b", "p">>
    ELSE IF StartsWith(header, <<"R", "0", "l", "G", "O", "D">>) THEN <<"i", "m", "a", "g", "e", "/", "g", "i", "f">>
    ELSE IF StartsWith(header, <<"J", "V", "B", "E", "R", "i", "0">>) THEN <<"a", "p", "p", "l", "i", "c", "a", "t", "i", "o", "n", "/", "p", "d", "f">>
    ELSE IF StartsWith(header, <<"U", "E", "s", "D", "B", "B", "Q", "A">>)
    THEN <<"a", "p", "p", "l", "i", "c", "a", "t", "i", "o", "n", "/", "v", "n", "d", ".", "o", "p", "e", "n", "x", "m", "l", "f", "o", "r", "m", "a", "t", "s", "-", "o", "f", "f", "i", "c", "e", "d", "o", "c", "u", "m", "e", "n", "t", ".", "w", "o", "r", "d", "p", "r", "o", "c", "e", "s", "s", "i", "n", "g", "m", "l", ".", "d", "o", "c", "u", "m", "e", "n", "t">>
    ELSE IF StartsWith(header, <<"P", "K">>) THEN <<"a", "p", "p", "l", "i", "c", "a", "t", "i", "o", "n", "/", "z", "i", "p">>
    ELSE <<"a", "p", "p", "l", "i", "c", "a", "t", "i", "o", "n", "/", "o", "c", "t", "e", "t", "-", "s", "t", "r", "e", "a", "m">>

\* The iterations i, i+1, ... of a loop "for (i = 0; i < files.length; i++)":
\* none when files.length is undefined.
LoopRuns(files, i) ==
    /\ LengthOf(files).t = "number"
    /\ i < LengthOf(files).v

RECURSIVE FileAnalysisItems(_, _, _)
\* The "Add file data directly as base64" loop of file_analysis from
\* iteration i on: the input_file items pushed, or the TypeError of an
\* entry that is truthy but no string.
FileAnalysisItems(files, i, items) ==
    IF ~LoopRuns(files, i) THEN [kind |-> "ok", items |-> items]
    ELSE LET base64Data == ElementAt(files, i) IN
         IF ~Truthy(base64Data) THEN FileAnalysisItems(files, i + 1, items)
         ELSE IF base64Data.t /= "string"
         THEN Throw(NewTypeError("base64Data.substring is not a function"))
         ELSE FileAnalysisItems(files, i + 1,
                  Append(items,
                         [type |-> "input_file",
                          file_url |-> <<"d", "a", "t", "a", ":">> \o mimeType(base64Data.v)
                                           \o <<";", "b", "a", "s", "e", "6", "4", ",">> \o base64Data.v]))

\* case 'file_analysis'
FileAnalysis(o) ==
    IF ~TruthyText(o, "file_analysis_prompt")
    THEN Throw(NewError("File analysis prompt is required for file analysis"))
    ELSE
    LET files == parsedFileBase64Array(o) IN
    IF IsNullish(files) THEN Throw(NewTypeError(NullLength))
    ELSE IF LengthOf(files) = Num(0)
    THEN Throw(NewError("At least one file is required for file analysis"))
    ELSE
    LET loop == FileAnalysisItems(files, 0, <<>>) IN
    IF loop.kind = "throw" THEN loop
    ELSE
    LET userContentWithFiles ==
            <<[type |-> "input_text", text |-> o.file_analysis_prompt]>>
                \o loop.items
        base == [model |-> IF model(o) /= "" THEN model(o) ELSE "gpt-4o-mini",
                 input |-> SystemMessage(o, "system_message_file_analysis")
                               \o UserMessage(userContentWithFiles),
                 max_output_tokens |-> max_output_tokens(o),
                 store |-> store_response(o)]
        shaped == HandleResponseFormat(o, base, "file_analysis_response")
    IN  IF shaped.kind = "throw" THEN shaped
        ELSE Await("responses.create", AttachPrevious(o, shaped.params))

\* The position of the first ';' of s, or 0.
IndexOfSemicolon(s) ==
    IF Occurrences(s, <<";">>) = {} THEN 0
    ELSE Least(Occurrences(s, <<";">>))

LineTerminators == {"\n", "\r"}

\* fileDataUrl.match(/^data:([^;]+);base64,(.*)$/): the two groups, or no
\* match.
DataUrlMatch(fileDataUrl) ==
    LET semi == IndexOfSemicolon(fileDataUrl)
        tail == DropTo(fileDataUrl, semi)
    IN  IF /\ StartsWith(fileDataUrl, <<"d", "a", "t", "a", ":">>)
           /\ semi > Len(<<"d", "a", "t", "a", ":">>) + 1
           /\ StartsWith(tail, <<";", "b", "a", "s", "e", "6", "4", ",">>)
           /\ \A k \in 1..Len(tail) : tail[k] \notin LineTerminators
        THEN [ok |-> TRUE,
              mimeType |-> SubSeq(fileDataUrl, Len(<<"d", "a", "t", "a", ":">>) + 1, semi - 1),
              base64Data |-> DropTo(tail, Len(<<";", "b", "a", "s", "e", "6", "4", ",">>) + 1)]
        ELSE [ok |-> FALSE]

\* "Try to guess filename extension from MIME type"
ext(mime) ==
    IF mime = <<"a", "p", "p", "l", "i", "c", "a", "t", "i", "o", "n", "/", "p", "d", "f">> THEN <<"p", "d", "f">>
    ELSE IF mime = <<"t", "e", "x", "t", "/", "p", "l", "a", "i", "n">> THEN <<"t", "x", "t">>
    ELSE IF mime = <<"a", "p", "p", "l", "i", "c", "a", "t", "i", "o", "n", "/", "v", "n", "d", ".", "o", "p", "e", "n", "x", "m", "l", "f", "o", "r", "m", "a", "t", "s", "-", "o", "f", "f", "i", "c", "e", "d", "o", "c", "u", "m", "e", "n", "t", ".", "w", "o", "r", "d", "p", "r", "o", "c", "e", "s", "s", "i", "n", "g", "m", "l", ".", "d", "o", "c", "u", "m", "e", "n", "t">>
    THEN <<"d", "o", "c", "x">>
    ELSE IF mime = <<"t", "e", "x", "t", "/", "m", "a", "r", "k", "d", "o", "w", "n">> THEN <<"m", "d">>
    ELSE IF mime = <<"t", "e", "x", "t", "/", "h", "t", "m", "l">> THEN <<"h", "t", "m", "l">>
    ELSE IF mime = <<"t", "e", "x", "t", "/", "c", "s", "v">> THEN <<"c", "s", "v">>
    ELSE IF mime = <<"a", "p", "p", "l", "i", "c", "a", "t", "i", "o", "n", "/", "j", "s", "o", "n">> THEN <<"j", "s", "o", "n">>
    ELSE <<"b", "i", "n">>

DigitChar == <<"0", "1", "2", "3", "4", "5", "6", "7", "8", "9">>

RECURSIVE Decimal(_)
\* The decimal text of a natural number.
Decimal(n) ==
    IF n < 10 THEN <<DigitChar[n + 1]>>
    ELSE Decimal(n \div 10) \o <<DigitChar[(n % 10) + 1]>>

\* `file_${i + 1}.${ext}`
filename(i, mime) == <<"f", "i", "l", "e", "_">> \o Decimal(i + 1) \o <<".">> \o ext(mime)

\* Buffer.from(base64Data, 'base64'): the decoder skips the characters that
\* are no base64 digit (padding, whitespace, anything else); the bytes are
\* named here by the digits it decodes.
BufferFrom(base64Data) ==
    SelectSeq(base64Data, LAMBDA c : c \in Base64Alphabet \cup {"-", "_"})

RECURSIVE UploadLoop(_, _, _)
\* The file loop of file_analysis_with_vector_search from iteration i on,
\* up to its next await: the upload it awaits (kind "upload"), the end of the
\* loop (kind "end"), or a TypeError.  content is
\* userContentWithFilesAndVector so far.  The File object is named by its
\* filename, type and bytes.
UploadLoop(files, i, content) ==
    IF ~(Truthy(files) /\ LoopRuns(files, i))
    THEN [kind |-> "end", i |-> i, content |-> content]
    ELSE LET fileDataUrl == ElementAt(files, i) IN
         IF ~Truthy(fileDataUrl) THEN UploadLoop(files, i + 1, content)
         ELSE IF fileDataUrl.t /= "string"
         THEN [kind |-> "throw", i |-> i, content |-> content,
               error |-> NewTypeError("fileDataUrl.startsWith is not a function")]
         ELSE IF StartsWith(fileDataUrl.v, <<"d", "a", "t", "a", ":", "i", "m", "a", "g", "e", "/">>)
         THEN UploadLoop(files, i + 1,
                  Append(content, [type |-> "input_image",
                                   image_url |-> fileDataUrl.v,
                                   detail |-> "high"]))
         ELSE IF StartsWith(fileDataUrl.v, <<"d", "a", "t", "a", ":">>)
         THEN LET matches == DataUrlMatch(fileDataUrl.v) IN
              IF ~matches.ok THEN UploadLoop(files, i + 1, content)
              ELSE IF matches.base64Data = <<>>
              THEN UploadLoop(files, i + 1, content)
              ELSE [kind |-> "upload", i |-> i, content |-> content,
                    params |-> [file |-> [name |-> filename(i, matches.mimeType),
                                          type |-> matches.mimeType,
                                          bytes |-> BufferFrom(matches.base64Data)],
                                purpose |-> "assistants"]]
         ELSE UploadLoop(files, i + 1, content)

\* file_analysis_with_vector_search after its file loop: the main call, or
\* the throw of the missing schema.
VectorSearchMainCall(o, content) ==
    LET base == [model |-> IF model(o) /= "" THEN model(o) ELSE "gpt-4o-mini",
                 input |-> SystemMessage(o, "system_message_file_analysis_vector")
                               \o UserMessage(content),
                 max_output_tokens |-> max_output_tokens(o),
                 store |-> store_response(o)]
        withTools == IF ~NoVectorStores(o)
                     THEN base @@ ("tools" :> FileSearchTools(o)) ELSE base
        shaped == HandleResponseFormat(o, withTools,
                                       "file_analysis_vector_response")
    IN  IF shaped.kind = "throw" THEN shaped
        ELSE Await("responses.create", AttachPrevious(o, shaped.params))

\* file_analysis_with_vector_search from iteration i of its file loop to the
\* next await or throw: the step the segment ends with, and the loop
\* variable and user content at that point.
VectorSearchFrom(o, files, i, content) ==
    LET loop == UploadLoop(files, i, content) IN
    [step |-> IF loop.kind = "end" THEN VectorSearchMainCall(o, loop.content)
              ELSE IF loop.kind = "throw" THEN Throw(loop.error)
              ELSE [kind |-> "upload", params |-> loop.params],
     i |-> loop.i,
     content |-> loop.content]

\* case 'file_analysis_with_vector_search', to its first await or throw
FileAnalysisWithVectorSearch(o) ==
    IF ~TruthyText(o, "file_analysis_prompt")
    THEN Throw(NewError("File analysis prompt is required for file analysis with vector search"))
    ELSE VectorSearchFrom(o, parsedFileBase64Array(o), 0,
             <<[type |-> "input_text", text |-> o.file_analysis_prompt]>>).step

(***************************************************************************)
(* The switch of each revision, to the first await or throw of the try     *)
(* block                                                                   *)
(***************************************************************************)
Revisions == {"api.ts", "part_000"}

UnknownOperation(o) ==
    Throw(NewError("Unknown operation type: " \o operation_type(o)))

\* src/src/api.ts
SwitchCurrent(o) ==
    LET op == operation_type(o) IN
    CASE op = "text_generation" -> TextGeneration(o, "system_message_text")
      [] op = "image_generation" -> ImageGeneration(o)
      [] op = "image_analysis" -> ImageAnalysis(o)
      [] op = "file_search" -> FileSearch(o, TRUE)
      [] op = "file_search_with_image" -> FileSearchWithImage(o)
      [] op = "code_interpreter" -> CodeInterpreter(o)
      [] op = "embeddings" -> Embeddings(o)
      [] op = "moderation" -> Moderation(o)
      [] op = "list_models" -> ListModels
      [] op = "file_analysis" -> FileAnalysis(o)
      [] op = "file_analysis_with_vector_search" ->
             FileAnalysisWithVectorSearch(o)
      [] OTHER -> UnknownOperation(o)

\* src/unnamed/part_000
SwitchEarlier(o) ==
    LET op == operation_type(o) IN
    CASE op = "text_generation" -> TextGeneration(o, "system_message")
      [] op = "image_generation" -> ImageGeneration(o)
      [] op = "file_search" -> FileSearch(o, FALSE)
      [] op = "code_interpreter" -> CodeInterpreter(o)
      [] op = "embeddings" -> Embeddings(o)
      [] op = "moderation" -> Moderation(o)
      [] op = "list_models" -> ListModels
      [] OTHER -> UnknownOperation(o)

Switch(rev, o) == IF rev = "api.ts" THEN SwitchCurrent(o) ELSE SwitchEarlier(o)

(***************************************************************************)
(* The result of each variant, from the response of its main call          *)
(***************************************************************************)
EmptyObject == [x \in {} |-> x]

\* The payload the text-like variants share: content, model, usage,
\* finish_reason, response_format.
TextData(o, r) ==
    [content |-> r.output_text, model |-> r.model, usage |-> r.usage,
     finish_reason |-> r.status, response_format |-> response_format(o)]

\* The value of `result` after the main call returned r; files is
\* parsedFileBase64Array in the two file variants.  A throw where building
\* the result reads the length of null.
Result(o, r, files) ==
    LET op == operation_type(o) IN
    CASE op \in {"text_generation", "image_analysis", "file_search_with_image"} ->
             [kind |-> "ok",
              result |-> [success |-> TRUE, data |-> TextData(o, r),
                          response_id |-> r.id]]
      [] op = "image_generation" ->
             [kind |-> "ok",
              result |-> [success |-> TRUE,
                          data |-> [images |-> r.output, model |-> r.model,
                                    usage |-> r.usage],
                          response_id |-> r.id]]
      [] op = "file_search" ->
             [kind |-> "ok",
              result |-> [success |-> TRUE,
                          data |-> [content |-> r.output_text,
                                    model |-> r.model, usage |-> r.usage],
                          response_id |-> r.id]]
      [] op = "code_interpreter" ->
             [kind |-> "ok",
              result |-> [success |-> TRUE,
                          data |-> [content |-> r.output_text,
                                    files |-> r.output, model |-> r.model,
                                    usage |-> r.usage],
                          response_id |-> r.id]]
      [] op = "embeddings" ->
             [kind |-> "ok",
              result |-> [success |-> TRUE,
                          data |-> [embeddings |-> r.data, model |-> r.model,
                                    usage |-> r.usage]]]
      [] op = "moderation" ->
             [kind |-> "ok",
              result |-> [success |-> TRUE,
                          data |-> [results |-> r.results, model |-> r.model,
                                    flagged |-> IF r.results /= <<>>
                                                THEN r.results[1].flagged
                                                ELSE FALSE,
                                    categories |-> IF r.results /= <<>>
                                                   THEN r.results[1].categories
                                                   ELSE EmptyObject,
                                    category_scores |->
                                        IF r.results /= <<>>
                                        THEN r.results[1].category_scores
                                        ELSE EmptyObject]]]
      [] op = "list_models" ->
             [kind |-> "ok",
              result |-> [success |-> TRUE, data |-> [models |-> r.data]]]
      [] op = "file_analysis" ->
             [kind |-> "ok",
              result |-> [success |-> TRUE,
                          data |-> TextData(o, r) @@
                              [processed_files_count |-> LengthOf(files)],
                          response_id |-> r.id]]
      [] op = "file_analysis_with_vector_search" ->
             IF IsNullish(files) THEN Throw(NewTypeError(NullLength))
             ELSE [kind |-> "ok",
                   result |-> [success |-> TRUE,
                               data |-> TextData(o, r) @@
                                   [processed_files_count |-> LengthOf(files),
                                    vector_search_enabled |-> ~NoVectorStores(o)],
                               response_id |-> r.id]]

\* Returned with the fault of a revision that drops the store_response
\* handling: the full result whatever the flag.
ReturnedFull(rev, o, result) == result

\* The value the handler returns after a successful switch: `result` in
\* api.ts; in part_000, `store_response ? result : { success: true, data: {} }`.
Returned(rev, o, result) ==
    IF rev = "part_000" /\ ~store_response(o)
    THEN [success |-> TRUE, data |-> EmptyObject]
    ELSE result

(***************************************************************************)
(* The upstream client: what an awaited call can return or throw           *)
(***************************************************************************)
ResponseIds == {"resp_1", "resp_2"}

Usage == [total_tokens |-> 42]

ModerationResults ==
    {<<>>,
     <<[flagged |-> TRUE, categories |-> [hate |-> TRUE],
        category_scores |-> [hate |-> "0.9"]]>>}

\* The responses an upstream call may resolve to.
UpstreamResponses(call) ==
    CASE call.api = "responses.create" ->
             {[id |-> id, output_text |-> "answer", model |-> call.params.model,
               usage |-> Usage, status |-> "completed", output |-> <<>>]
                  : id \in ResponseIds}
      [] call.api = "embeddings.create" ->
             {[data |-> <<[index |-> 0, embedding |-> <<"0.1">>]>>,
               model |-> call.params.model, usage |-> Usage]}
      [] call.api = "moderations.create" ->
             {[results |-> rs, model |-> call.params.model]
                  : rs \in ModerationResults}
      [] call.api = "models.list" -> {[data |-> <<[id |-> "gpt-4o-mini"]>>]}

\* The values an upstream call may reject with: an Error subclass of the
\* SDK, a thrown string, a thrown value that is neither.
ThrownValues ==
    {[kind |-> "Error", name |-> "APIError", message |-> "429 rate limited"],
     [kind |-> "string", value |-> "socket hang up"],
     [kind |-> "other"]}

FileId(n) == <<"file-", n>>


(***************************************************************************)
(* The option schema declarator (app.ts): two definitions, the current     *)
(* form ("first") and the earlier form ("second")                          *)
(***************************************************************************)
\* meta.options.choices of the field operation_type.
choices(d) ==
    IF d = "first"
    THEN {"text_generation", "image_generation", "image_analysis",
          "file_search", "file_search_with_image", "code_interpreter",
          "embeddings", "moderation", "list_models"}
    ELSE {"chat_completion", "completion", "image_generation",
          "audio_transcription", "audio_translation", "embeddings",
          "moderation", "list_models"}

\* A field with one condition that shows it: meta.hidden as declared
\* (absent in the second definition: not hidden), and the rule as the
\* values it accepts for each option it names (_eq: one value, _in: the
\* listed values, _and: every named option).
Conditional(field, hidden, rule) ==
    [field |-> field, hidden |-> hidden,
     conditions |-> <<[rule |-> rule, hidden |-> FALSE]>>]

\* The array `options` of defineOperationApp, in each definition.
appOptions ==
    [d \in {"first", "second"} |->
    IF d = "first"
    THEN <<[field |-> "api_key", hidden |-> FALSE, conditions |-> <<>>],
           [field |-> "operation_type", hidden |-> FALSE, conditions |-> <<>>],
           [field |-> "model", hidden |-> FALSE, conditions |-> <<>>],
           Conditional("previous_response_id", TRUE,
               [operation_type |-> {"text_generation", "image_generation",
                    "image_analysis", "file_search", "file_search_with_image",
                    "code_interpreter"}]),
           Conditional("system_message_text", TRUE,
               [operation_type |-> {"text_generation"}]),
           Conditional("user_message", TRUE,
               [operation_type |-> {"text_generation"}]),
           Conditional("enable_web_search", TRUE,
               [operation_type |-> {"text_generation"}]),
           Conditional("response_format", TRUE,
               [operation_type |-> {"text_generation"}]),
           Conditional("json_schema", TRUE,
               [operation_type |-> {"text_generation"},
                response_format |-> {"json_schema"}]),
           Conditional("max_output_tokens", TRUE,
               [operation_type |-> {"text_generation"}]),
           Conditional("image_prompt", TRUE,
               [operation_type |-> {"image_generation"}]),
           Conditional("image_size", TRUE,
               [operation_type |-> {"image_generation"}]),
           Conditional("image_quality", TRUE,
               [operation_type |-> {"image_generation"}]),
           Conditional("image_style", TRUE,
               [operation_type |-> {"image_generation"}]),
           Conditional("image_url", TRUE,
               [operation_type |-> {"image_analysis", "file_search_with_image"}]),
           Conditional("image_base64", TRUE,
               [operation_type |-> {"image_analysis", "file_search_with_image"}]),
           Conditional("analysis_prompt", TRUE,
               [operation_type |-> {"image_analysis"}]),
           Conditional("system_message_image", TRUE,
               [operation_type |-> {"image_analysis"}]),
           Conditional("response_format", TRUE,
               [operation_type |-> {"image_analysis", "file_search_with_image"}]),
           Conditional("json_schema", TRUE,
               [operation_type |-> {"image_analysis", "file_search_with_image"},
                response_format |-> {"json_schema"}]),
           Conditional("max_output_tokens", TRUE,
               [operation_type |-> {"image_analysis", "file_search_with_image"}]),
           Conditional("system_message_file", TRUE,
               [operation_type |-> {"file_search"}]),
           Conditional("search_query", TRUE,
               [operation_type |-> {"file_search", "file_search_with_image"}]),
           Conditional("vector_store_ids", TRUE,
               [operation_type |-> {"file_search", "file_search_with_image"}]),
           Conditional("system_message_file_image", TRUE,
               [operation_type |-> {"file_search_with_image"}]),
           Conditional("code_input", TRUE,
               [operation_type |-> {"code_interpreter"}]),
           Conditional("text_input", TRUE,
               [operation_type |-> {"embeddings", "moderation"}]),
           Conditional("store_response", TRUE,
               [operation_type |-> {"text_generation", "image_generation",
                    "file_search", "file_search_with_image",
                    "code_interpreter"}])>>
    ELSE <<[field |-> "api_key", hidden |-> FALSE, conditions |-> <<>>],
           [field |-> "operation_type", hidden |-> FALSE, conditions |-> <<>>],
           [field |-> "model", hidden |-> FALSE, conditions |-> <<>>],
           Conditional("system_message", FALSE,
               [operation_type |-> {"chat_completion"}]),
           Conditional("message", FALSE,
               [operation_type |-> {"chat_completion"}]),
           Conditional("prompt", FALSE,
               [operation_type |-> {"completion", "embeddings", "moderation"}]),
           Conditional("image_prompt", FALSE,
               [operation_type |-> {"image_generation"}]),
           Conditional("audio_file", FALSE,
               [operation_type |-> {"audio_transcription", "audio_translation"}]),
           Conditional("temperature", FALSE,
               [operation_type |-> {"chat_completion", "completion"}]),
           Conditional("max_tokens", FALSE,
               [operation_type |-> {"chat_completion", "completion"}]),
           Conditional("top_p", FALSE,
               [operation_type |-> {"chat_completion", "completion"}]),
           Conditional("frequency_penalty", FALSE,
               [operation_type |-> {"chat_completion", "completion"}]),
           Conditional("presence_penalty", FALSE,
               [operation_type |-> {"chat_completion", "completion"}]),
           Conditional("image_size", FALSE,
               [operation_type |-> {"image_generation"}]),
           Conditional("image_quality", FALSE,
               [operation_type |-> {"image_generation"}]),
           Conditional("image_style", FALSE,
               [operation_type |-> {"image_generation"}]),
           Conditional("audio_language", FALSE,
               [operation_type |-> {"audio_transcription", "audio_translation"}]),
           Conditional("response_format", FALSE,
               [operation_type |-> {"audio_transcription", "audio_translation"}]),
           [field |-> "store_response", hidden |-> FALSE, conditions |-> <<>>]>>]

\* The values of the form for an option bag: the options set, and
\* schema.default_value for operation_type and response_format.
FormValues(d, o) ==
    o @@ (IF d = "first"
          THEN [operation_type |-> "text_generation", response_format |-> "text"]
          ELSE [operation_type |-> "chat_completion", response_format |-> "json"])

\* Matches with the fault of a rule whose tests are joined by "or".
MatchesAny(rule, values) ==
    \E k \in DOMAIN rule : Has(values, k) /\ values[k] \in rule[k]

\* The rule of a condition holds of the values: every option it names has
\* one of the accepted values.
Matches(rule, values) ==
    \A k \in DOMAIN rule : Has(values, k) /\ values[k] \in rule[k]

\* The form hides the field: `hidden` of the condition whose rule holds
\* (every field declares at most one condition), else meta.hidden.
Hidden(entry, values) ==
    LET matching == {k \in DOMAIN entry.conditions :
                         Matches(entry.conditions[k].rule, values)}
    IN  IF matching = {} THEN entry.hidden
        ELSE entry.conditions[CHOOSE k \in matching : TRUE].hidden

\* Some declaration of the field is shown.
Visible(d, field, values) ==
    \E k \in DOMAIN appOptions[d] :
        /\ appOptions[d][k].field = field
        /\ ~Hidden(appOptions[d][k], values)
(***************************************************************************)
(* State                                                                   *)
(***************************************************************************)
VARIABLES
    revision,        \* the dispatcher revision installed: "api.ts" or "part_000"
    options,         \* options[i]: the option bag of invocation i
    pc,              \* pc[i]: "entry", the await the invocation is suspended
                     \* at ("main", "upload", "delete"), "returned" or "thrown"
    calls,           \* calls[i]: the upstream calls invocation i has issued
    outcome,         \* outcome[i]: the returned OperationResult or the thrown
                     \* error, once the invocation has ended
    locals,          \* locals[i]: the handler's locals that live across awaits
    issuedFiles,     \* upstream: how many file ids the file store has issued
    warnings,        \* warnings[i]: the console.warn lines of invocation i
    schemaSupplied   \* history: an earlier invocation carried a json_schema

vars == <<revision, options, pc, calls, outcome, locals, issuedFiles,
          warnings, schemaSupplied>>

Invocations == DOMAIN pc

Pending == [state |-> "pending"]
ReturnedValue(result) == [state |-> "returned", result |-> result]
ThrownError(error) == [state |-> "thrown", error |-> error]

\* files: parsedFileBase64Array (parsedFileBase64ArrayForAnalysis); i: the
\* variable of the file loop; content: userContentWithFilesAndVector;
\* uploadedFileIds; response: the response of the main call; d: how many
\* entries of uploadedFileIds the cleanup loop has finished.
NoLocals ==
    [files |-> Arr(<<>>), i |-> 0, content |-> <<>>, uploadedFileIds |-> <<>>,
     response |-> EmptyObject, d |-> 0]

FileVariants == {"file_analysis", "file_analysis_with_vector_search"}

\* The locals at the end of the first segment of the try block.
EntryLocals(rev, o) ==
    IF /\ rev = "api.ts"
       /\ operation_type(o) \in FileVariants
       /\ TruthyText(o, "file_analysis_prompt")
    THEN IF operation_type(o) = "file_analysis"
         THEN [NoLocals EXCEPT !.files = parsedFileBase64Array(o)]
         ELSE LET files == parsedFileBase64Array(o)
                  first == VectorSearchFrom(o, files, 0,
                               <<[type |-> "input_text",
                                  text |-> o.file_analysis_prompt]>>)
              IN  [NoLocals EXCEPT !.files = files, !.i = first.i,
                                   !.content = first.content]
    ELSE NoLocals

MaxIssuedFiles == 4

ApiKeyRequired == "OpenAI API key is required"

(***************************************************************************)
(* Actions: the synchronous segments of the handler                        *)
(***************************************************************************)
\* The invocation ends by returning `result`.
Return(i, result) ==
    /\ pc' = [pc EXCEPT ![i] = "returned"]
    /\ outcome' = [outcome EXCEPT ![i] = ReturnedValue(result)]
    /\ UNCHANGED calls

\* The try block threw `error`: the catch block returns the Failure.
Catch(i, error) == Return(i, ErrorResult(error, options[i]))

\* The invocation suspends at the await of `call`.
Suspend(i, at, call) ==
    /\ pc' = [pc EXCEPT ![i] = at]
    /\ calls' = [calls EXCEPT ![i] = Append(@, call)]
    /\ UNCHANGED outcome

\* Continue with the fault of an upload that is not awaited: the handler
\* issues the upload and goes on to issue the main call.
ContinueUnawaited(i, step) ==
    CASE step.kind = "throw" -> Catch(i, step.error)
      [] step.kind = "await" ->
             Suspend(i, "main", [api |-> step.api, params |-> step.params])
      [] step.kind = "upload" ->
             /\ pc' = [pc EXCEPT ![i] = "upload"]
             /\ calls' = [calls EXCEPT ![i] =
                    @ \o <<[api |-> "files.create", params |-> step.params],
                           [api |-> "responses.create", params |-> EmptyObject]>>]
             /\ UNCHANGED outcome

\* A segment of the try block ended in `step`: a throw, the await of the
\* main call, or the await of an upload.
Continue(i, step) ==
    CASE step.kind = "throw" -> Catch(i, step.error)
      [] step.kind = "await" ->
             Suspend(i, "main", [api |-> step.api, params |-> step.params])
      [] step.kind = "upload" ->
             Suspend(i, "upload",
                     [api |-> "files.create", params |-> step.params])

\* From the call of the handler to its first await, return or throw.  The
\* credential check stands before the try block: its throw leaves the
\* handler.
Entry(i) ==
    /\ pc[i] = "entry"
    /\ LET o == options[i] IN
       IF ~TruthyText(o, "api_key")
       THEN /\ pc' = [pc EXCEPT ![i] = "thrown"]
            /\ outcome' = [outcome EXCEPT ![i] =
                   ThrownError(NewError(ApiKeyRequired))]
            /\ UNCHANGED <<calls, locals>>
       ELSE /\ Continue(i, Switch(revision, o))
            /\ locals' = [locals EXCEPT ![i] = EntryLocals(revision, o)]
    /\ UNCHANGED <<revision, options, issuedFiles, warnings, schemaSupplied>>

LastCall(i) == calls[i][Len(calls[i])]

\* After the main call and the cleanup: build `result`, log, return.
Finish(i, l) ==
    LET built == Result(options[i], l.response, l.files) IN
    IF built.kind = "throw" THEN Catch(i, built.error)
    ELSE Return(i, Returned(revision, options[i], built.result))

\* Cleanup with the fault of a list of uploaded files shared by the
\* invocations: the loop deletes every file the file store has issued.
CleanupShared(i, l) ==
    IF l.d < issuedFiles
    THEN Suspend(i, "delete",
                 [api |-> "files.del", params |-> [file_id |-> FileId(l.d + 1)]])
    ELSE Finish(i, l)

\* The cleanup loop with l.d entries of uploadedFileIds done: the delete it
\* awaits next, or the end of the loop.
Cleanup(i, l) ==
    IF l.d < Len(l.uploadedFileIds)
    THEN Suspend(i, "delete",
                 [api |-> "files.del",
                  params |-> [file_id |-> l.uploadedFileIds[l.d + 1]]])
    ELSE Finish(i, l)

\* The main call of the variant resolves.
MainReturns(i) ==
    /\ pc[i] = "main"
    /\ \E r \in UpstreamResponses(LastCall(i)) :
          LET l == [locals[i] EXCEPT !.response = r] IN
          /\ locals' = [locals EXCEPT ![i] = l]
          /\ Cleanup(i, l)
    /\ UNCHANGED <<revision, options, issuedFiles, warnings, schemaSupplied>>

\* MainThrows with the fault of a retry: the rejected main call is issued
\* again.
MainThrowsRetried(i) ==
    /\ pc[i] = "main"
    /\ Suspend(i, "main", LastCall(i))
    /\ UNCHANGED <<revision, options, locals, issuedFiles, warnings,
                 schemaSupplied>>

\* The main call of the variant rejects.
MainThrows(i) ==
    /\ pc[i] = "main"
    /\ \E e \in ThrownValues : Catch(i, e)
    /\ UNCHANGED <<revision, options, locals, issuedFiles, warnings,
                 schemaSupplied>>

\* openai.files.create resolves with a fresh file id.
UploadReturns(i) ==
    /\ pc[i] = "upload"
    /\ issuedFiles < MaxIssuedFiles
    /\ issuedFiles' = issuedFiles + 1
    /\ LET id == FileId(issuedFiles + 1)
           l == locals[i]
           next == VectorSearchFrom(options[i], l.files, l.i + 1,
                       Append(l.content,
                              [type |-> "input_file", file_id |-> id]))
       IN  /\ locals' = [locals EXCEPT ![i] =
                  [l EXCEPT !.uploadedFileIds = Append(@, id),
                            !.i = next.i,
                            !.content = next.content]]
           /\ Continue(i, next.step)
    /\ UNCHANGED <<revision, options, warnings, schemaSupplied>>

\* openai.files.create rejects.
UploadThrows(i) ==
    /\ pc[i] = "upload"
    /\ \E e \in ThrownValues : Catch(i, e)
    /\ UNCHANGED <<revision, options, locals, issuedFiles, warnings,
                 schemaSupplied>>

\* openai.files.del resolves: the next iteration of the cleanup loop.
DeleteReturns(i) ==
    /\ pc[i] = "delete"
    /\ LET l == [locals[i] EXCEPT !.d = @ + 1] IN
       /\ locals' = [locals EXCEPT ![i] = l]
       /\ Cleanup(i, l)
    /\ UNCHANGED <<revision, options, issuedFiles, warnings, schemaSupplied>>

\* DeleteThrows with the fault of a cleanup loop without its inner try: the
\* rejection of a delete reaches the catch block of the handler.
DeleteThrowsSurfaced(i) ==
    /\ pc[i] = "delete"
    /\ \E e \in ThrownValues : Catch(i, e)
    /\ UNCHANGED <<revision, options, locals, issuedFiles, warnings,
                 schemaSupplied>>

\* openai.files.del rejects: the inner catch logs a warning, and the loop
\* goes on.
DeleteThrows(i) ==
    /\ pc[i] = "delete"
    /\ \E e \in ThrownValues :
          LET l == [locals[i] EXCEPT !.d = @ + 1] IN
          /\ locals' = [locals EXCEPT ![i] = l]
          /\ Cleanup(i, l)
          /\ warnings' = [warnings EXCEPT ![i] =
                 Append(@, [file_id |-> LastCall(i).params.file_id,
                            error |-> e])]
    /\ UNCHANGED <<revision, options, issuedFiles, schemaSupplied>>

(***************************************************************************)
(* Inputs: the option bags the host may pass                               *)
(***************************************************************************)
\* An option that is absent, or present with one of the values.
Field(f, values) == {EmptyObject} \cup {f :> v : v \in values}

Restrict(f, keys) == [k \in DOMAIN f \cap keys |-> f[k]]

\* The texts the requests carry: base64 payloads (the start of real files),
\* data URLs, an image URL, texts with a quote and a backslash, text that is
\* no JSON.
Sample ==
    [png |-> <<"i", "V", "B", "O", "R", "w", "0", "K", "G", "g", "o", "A", "A", "A", "A", "N", "S", "U", "h", "E", "U", "g", "A", "A", "A", "A", "E", "A", "A", "A", "A", "B">>,
     jpeg |-> <<"/", "9", "j", "/", "4", "A", "A", "Q", "S", "k", "Z", "J", "R", "g", "A", "B", "A", "Q", "=", "=">>,
     pdf |-> <<"J", "V", "B", "E", "R", "i", "0", "x", "L", "j", "Q", "K">>,
     webp |-> <<"U", "k", "l", "G", "R", "i", "Q", "A", "A", "A", "B", "X", "R", "U", "J", "Q">>,
     gif |-> <<"R", "0", "l", "G", "O", "D", "l", "h", "A", "Q", "A", "B", "A", "A", "A", "A", "A", "C", "w", "=">>,
     docx |-> <<"U", "E", "s", "D", "B", "B", "Q", "A", "B", "g", "A", "I", "A", "A", "A", "A", "I", "Q">>,
     zip |-> <<"P", "K", "A", "w", "Q", "K", "A", "A", "A", "A", "A", "A", "A">>,
     plain |-> <<"S", "G", "V", "s", "b", "G", "8", "=">>,
     spacedPng |-> <<"i", "V", "B", "O", "R", "w", "0", "K", "G", "g", "o", " ", "A", "A", "A", "A">>,
     malformed |-> <<"!", "!", "!">>,
     pngUrl |-> <<"d", "a", "t", "a", ":", "i", "m", "a", "g", "e", "/", "p", "n", "g", ";", "b", "a", "s", "e", "6", "4", ",", "i", "V", "B", "O", "R", "w", "0", "K", "G", "g", "o", "=">>,
     pdfUrl |-> <<"d", "a", "t", "a", ":", "a", "p", "p", "l", "i", "c", "a", "t", "i", "o", "n", "/", "p", "d", "f", ";", "b", "a", "s", "e", "6", "4", ",", "J", "V", "B", "E", "R", "i", "0", "x", "L", "j", "Q", "K">>,
     textUrl |-> <<"d", "a", "t", "a", ":", "t", "e", "x", "t", "/", "p", "l", "a", "i", "n", ";", "b", "a", "s", "e", "6", "4", ",", "S", "G", "V", "s", "b", "G", "8", "=">>,
     charsetUrl |-> <<"d", "a", "t", "a", ":", "t", "e", "x", "t", "/", "p", "l", "a", "i", "n", ";", "c", "h", "a", "r", "s", "e", "t", "=", "u", "t", "f", "-", "8", ";", "b", "a", "s", "e", "6", "4", ",", "S", "G", "V", "s", "b", "G", "8", "=">>,
     malformedUrl |-> <<"d", "a", "t", "a", ":", "a", "p", "p", "l", "i", "c", "a", "t", "i", "o", "n", "/", "p", "d", "f", ";", "b", "a", "s", "e", "6", "4", ",", "!", "!", "!">>,
     emptyUrl |-> <<"d", "a", "t", "a", ":", "a", "p", "p", "l", "i", "c", "a", "t", "i", "o", "n", "/", "p", "d", "f", ";", "b", "a", "s", "e", "6", "4", ",">>,
     imageUrl |-> <<"h", "t", "t", "p", "s", ":", "/", "/", "e", "x", "a", "m", "p", "l", "e", ".", "o", "r", "g", "/", "c", "a", "t", ".", "p", "n", "g">>,
     quoted |-> <<"a", "\"", "b">>,
     backslashed |-> <<"a", "\\", "b">>,
     notJson |-> <<"n", "o", "t", " ", "j", "s", "o", "n">>]

\* JSON.stringify of a text: the form in which the host serialises it.
JSONString(chars) ==
    <<"\"">> \o ReplaceAll(ReplaceAll(chars, <<"\\">>, <<"\\", "\\">>), <<"\"">>, <<"\\", "\"">>) \o <<"\"">>

RECURSIVE JSONItems(_)
JSONItems(texts) ==
    IF Len(texts) = 1 THEN JSONString(texts[1])
    ELSE JSONString(texts[1]) \o <<",">> \o JSONItems(Tail(texts))

\* JSON.stringify of an array of texts.
JSONText(texts) ==
    IF texts = <<>> THEN <<"[", "]">> ELSE <<"[">> \o JSONItems(texts) \o <<"]">>

\* A JSON text escaped once more, as a form layer that quotes its value
\* sends it: [\"a\",\"b\"].
DoubleEscaped(text) == ReplaceAll(text, <<"\"">>, <<"\\", "\"">>)

Strs(texts) == Arr([k \in 1..Len(texts) |-> Str(texts[k])])

ImagePayloads ==
    {Sample.png, Sample.jpeg, Sample.pdf, Sample.webp, Sample.gif, Sample.spacedPng, Sample.malformed,
     Sample.pngUrl}

\* image_url and image_base64: neither, both empty, or a source.
NoImage == {EmptyObject, [image_url |-> <<>>, image_base64 |-> <<>>]}

ImageSources ==
    {[image_url |-> Sample.imageUrl], [image_url |-> Sample.imageUrl, image_base64 |-> Sample.malformed],
     [image_url |-> <<>>, image_base64 |-> Sample.jpeg]}
        \cup {[image_base64 |-> p] : p \in ImagePayloads}

FewImageSources ==
    {[image_url |-> Sample.imageUrl], [image_base64 |-> Sample.png],
     [image_base64 |-> Sample.pdf], [image_base64 |-> Sample.malformed]}

\* The pairs of texts the round trip of file_base64_array is tried on.
TextPairs ==
    {<<Sample.png, Sample.pdf>>, <<Sample.pdfUrl, Sample.textUrl>>, <<Sample.quoted, Sample.plain>>,
     <<Sample.plain, Sample.backslashed>>}

\* file_base64_array as a text.
FileTexts ==
    {JSONText(pair) : pair \in TextPairs}
        \cup {DoubleEscaped(JSONText(<<Sample.png, Sample.pdf>>)),
              DoubleEscaped(JSONText(<<Sample.pdfUrl, Sample.textUrl>>)),
              Sample.notJson, <<"n", "u", "l", "l">>, <<"1", "2", "3">>, <<"\"", "Q", "U", "J", "D", "\"">>, <<"[", "]">>, <<"[", "1", "]">>, <<"{", "}">>,
              <<"[", "\"", "d", "a", "t", "a", ":", "a", "p", "p", "l", "i", "c", "a", "t", "i", "o", "n", "/", "p", "d", "f", ";", "b", "a", "s", "e", "6", "4", ",", "J", "V", "B", "E", "R", "i", "0", "x", "L", "j", "Q", "K", "\"", ",", " ", "1", "]">>, <<>>}

\* file_base64_array as an array.
FileArrays ==
    {<<>>, <<Sample.png>>, <<Sample.jpeg, Sample.pdf>>, <<Sample.malformed>>, <<<<>>>>,
     <<Sample.docx, Sample.zip, Sample.plain>>, <<Sample.webp, Sample.gif>>,
     <<Sample.pdfUrl>>, <<Sample.pdfUrl, Sample.pngUrl, Sample.textUrl>>,
     <<Sample.malformedUrl>>, <<Sample.charsetUrl, Sample.emptyUrl, <<>>, Sample.plain>>}

FileLists ==
    Field("file_base64_array",
          {Str(t) : t \in FileTexts} \cup {Strs(a) : a \in FileArrays})

Schema == [type |-> "object", required |-> <<"summary">>]

MissingSchema == [response_format |-> "json_schema"]
WithSchema == [response_format |-> "json_schema", json_schema |-> Schema]

\* response_format and json_schema.
Shapes ==
    {EmptyObject, [response_format |-> "json_object"], MissingSchema, WithSchema}

\* A required text option that is absent or empty.
Missing(f) == {EmptyObject, f :> ""}

\* The options of a request that the variant rejects for a missing field:
\* the required options in every combination with one of them missing, the
\* optional ones absent or asking for a schema that is not there.
Incomplete(rev, op) ==
    LET req ==
        CASE op = "text_generation" -> Missing("user_message")
          [] op = "image_generation" -> Missing("image_prompt")
          [] op = "image_analysis" -> NoImage
          [] op = "file_search" ->
                 {q @@ v : q \in Field("search_query", {"", "find the clause"}),
                           v \in Field("vector_store_ids", {<<>>, <<"vs_1">>})}
                     \ {[search_query |-> "find the clause",
                         vector_store_ids |-> <<"vs_1">>]}
          [] op = "file_search_with_image" ->
                 {q @@ v @@ img :
                      q \in Field("search_query", {"", "find the clause"}),
                      v \in Field("vector_store_ids", {<<>>, <<"vs_1">>}),
                      img \in NoImage \cup {[image_url |-> Sample.imageUrl]}}
                     \ {[search_query |-> "find the clause",
                         vector_store_ids |-> <<"vs_1">>,
                         image_url |-> Sample.imageUrl]}
          [] op = "code_interpreter" -> Missing("code_input")
          [] op \in {"embeddings", "moderation"} -> Missing("text_input")
          [] op \in FileVariants ->
                 {p @@ f : p \in Missing("file_analysis_prompt"),
                           f \in {EmptyObject, [file_base64_array |-> Strs(<<Sample.pdfUrl>>)]}}
          [] OTHER -> {}
    IN  {r @@ s : r \in req, s \in {EmptyObject, MissingSchema}}

SystemField(rev, op) ==
    CASE rev = "part_000" -> "system_message"
      [] op = "text_generation" -> "system_message_text"
      [] op = "image_analysis" -> "system_message_image"
      [] op = "file_search" -> "system_message_file"
      [] op = "file_search_with_image" -> "system_message_file_image"
      [] op = "file_analysis" -> "system_message_file_analysis"
      [] op = "file_analysis_with_vector_search" ->
             "system_message_file_analysis_vector"
      [] OTHER -> "system_message_text"

System(rev, op) == Field(SystemField(rev, op), {"Be brief"})

\* The options of a request that has every required field of its variant.
Complete(rev, op) ==
    CASE op = "text_generation" ->
             {[user_message |-> "Hello"] @@ s @@ w @@ f :
                  s \in System(rev, op),
                  w \in Field("enable_web_search", {TRUE}),
                  f \in Shapes}
      [] op = "image_generation" ->
             {[image_prompt |-> "a red kite"] @@ m @@ z :
                  m \in Field("model", {"dall-e-2"}),
                  z \in Field("image_size", {"512x512"})}
      [] op = "image_analysis" ->
             {img @@ s @@ p @@ f :
                  img \in ImageSources,
                  s \in System(rev, op),
                  p \in Field("analysis_prompt", {"What is this?"}),
                  f \in Shapes}
      [] op = "file_search" ->
             {[search_query |-> "find the clause",
               vector_store_ids |-> <<"vs_1">>] @@ s : s \in System(rev, op)}
      [] op = "file_search_with_image" ->
             {[search_query |-> "find the clause",
               vector_store_ids |-> <<"vs_1">>] @@ img @@ s @@ f :
                  img \in FewImageSources,
                  s \in System(rev, op),
                  f \in Shapes}
      [] op = "code_interpreter" -> {[code_input |-> "print(1)"]}
      [] op = "embeddings" ->
             {[text_input |-> "some text"] @@ m :
                  m \in Field("model", {"text-embedding-3-large"})}
      [] op = "moderation" -> {[text_input |-> "some text"]}
      [] op = "list_models" -> {EmptyObject}
      [] op = "file_analysis" ->
             {[file_analysis_prompt |-> "Summarise"] @@ l @@ s @@ f :
                  l \in FileLists, s \in System(rev, op), f \in Shapes}
      [] op = "file_analysis_with_vector_search" ->
             {[file_analysis_prompt |-> "Summarise"] @@ l @@ v @@ s @@ f :
                  l \in FileLists,
                  v \in Field("vector_store_ids", {<<"vs_1">>}),
                  s \in System(rev, op),
                  f \in Shapes}
      [] OTHER -> {EmptyObject}

\* The operation types each revision's switch has a case for.
Variants(rev) ==
    IF rev = "api.ts"
    THEN {"text_generation", "image_generation", "image_analysis",
          "file_search", "file_search_with_image", "code_interpreter",
          "embeddings", "moderation", "list_models", "file_analysis",
          "file_analysis_with_vector_search"}
    ELSE {"text_generation", "image_generation", "file_search",
          "code_interpreter", "embeddings", "moderation", "list_models"}

\* The variants that call the Responses endpoint.
ResponsesVariants(rev) ==
    Variants(rev) \ {"embeddings", "moderation", "list_models"}

\* The variants with a "Handle response format" block.
ShapedVariants(rev) ==
    Variants(rev) \cap {"text_generation", "image_analysis",
                        "file_search_with_image", "file_analysis",
                        "file_analysis_with_vector_search"}

\* The option names the code of a variant reads.
Reads(rev, op) ==
    {"api_key", "operation_type", "model", "store_response"}
        \cup (IF op \in ResponsesVariants(rev) THEN {"previous_response_id"}
              ELSE {})
        \cup (IF op \in ShapedVariants(rev)
              THEN {"response_format", "json_schema", "max_output_tokens"}
              ELSE {})
        \cup (IF op \in {"text_generation", "image_analysis", "file_search",
                         "file_search_with_image"} \cup FileVariants
                 /\ ~(rev = "part_000" /\ op = "file_search")
              THEN {SystemField(rev, op)} ELSE {})
        \cup (CASE op = "text_generation" -> {"user_message", "enable_web_search"}
                [] op = "image_generation" ->
                       {"image_prompt", "image_size", "image_quality",
                        "image_style"}
                [] op = "image_analysis" ->
                       {"image_url", "image_base64", "analysis_prompt"}
                [] op = "file_search" -> {"search_query", "vector_store_ids"}
                [] op = "file_search_with_image" ->
                       {"search_query", "vector_store_ids", "image_url",
                        "image_base64"}
                [] op = "code_interpreter" -> {"code_input"}
                [] op \in {"embeddings", "moderation"} -> {"text_input"}
                [] op = "file_analysis" ->
                       {"file_analysis_prompt", "file_base64_array"}
                [] op = "file_analysis_with_vector_search" ->
                       {"file_analysis_prompt", "file_base64_array",
                        "vector_store_ids"}
                [] OTHER -> {})

\* Every option set, to values of its own.
EveryOption ==
    [system_message |-> "other system", system_message_text |-> "other text",
     system_message_image |-> "other image", system_message_file |-> "other file",
     system_message_file_image |-> "other file image",
     system_message_file_analysis |-> "other analysis",
     system_message_file_analysis_vector |-> "other vector",
     user_message |-> "other message", enable_web_search |-> TRUE,
     response_format |-> "json_schema", json_schema |-> [type |-> "array"],
     image_prompt |-> "other prompt", image_url |-> <<"h", "t", "t", "p", "s", ":", "/", "/", "e", "x", "a", "m", "p", "l", "e", ".", "o", "r", "g", "/", "o", "t", "h", "e", "r", ".", "p", "n", "g">>,
     image_base64 |-> Sample.malformed, analysis_prompt |-> "other analysis prompt",
     search_query |-> "other query", vector_store_ids |-> <<"vs_other">>,
     code_input |-> "other code", text_input |-> "other input",
     file_analysis_prompt |-> "other file prompt",
     file_base64_array |-> Strs(<<Sample.malformedUrl>>),
     image_size |-> "256x256", max_output_tokens |-> 256,
     previous_response_id |-> "resp_other"]

\* The options of other variants: none, or all of them.
Foreign(rev, op) ==
    {EmptyObject, Restrict(EveryOption, DOMAIN EveryOption \ Reads(rev, op))}

\* previous_response_id and store_response.
Shared(rev, op) ==
    {p @@ s :
         p \in IF op \in ResponsesVariants(rev)
               THEN Field("previous_response_id", {"resp_prev"}) ELSE {EmptyObject},
         s \in Field("store_response", {TRUE, FALSE})}

\* operation_type: each case of the switch; a type the revision has no
\* case for; absent.
OperationTypes(rev) == Variants(rev) \cup {"chat_completion"}

TaggedRequests(rev) ==
    UNION {{[operation_type |-> op] @@ own @@ sh @@ fo :
                own \in Incomplete(rev, op) \cup Complete(rev, op),
                sh \in Shared(rev, op),
                fo \in Foreign(rev, op)} : op \in OperationTypes(rev)}

UntaggedRequests(rev) ==
    {own @@ sh @@ fo :
         own \in Missing("user_message")
                     \cup {[user_message |-> "Hello"] @@ s @@ f :
                               s \in System(rev, "text_generation"),
                               f \in {EmptyObject, MissingSchema}},
         sh \in Shared(rev, "text_generation"),
         fo \in Foreign(rev, "text_generation")}

\* One complete request per operation type.
Typical(op) ==
    [operation_type |-> op] @@
    (CASE op = "text_generation" -> [user_message |-> "Hello"]
       [] op = "image_generation" -> [image_prompt |-> "a red kite"]
       [] op = "image_analysis" -> [image_base64 |-> Sample.png]
       [] op = "file_search" ->
              [search_query |-> "find the clause",
               vector_store_ids |-> <<"vs_1">>]
       [] op = "file_search_with_image" ->
              [search_query |-> "find the clause",
               vector_store_ids |-> <<"vs_1">>, image_url |-> Sample.imageUrl]
       [] op = "code_interpreter" -> [code_input |-> "print(1)"]
       [] op \in {"embeddings", "moderation"} -> [text_input |-> "some text"]
       [] op = "file_analysis" ->
              [file_analysis_prompt |-> "Summarise",
               file_base64_array |-> Strs(<<Sample.pdf>>)]
       [] op = "file_analysis_with_vector_search" ->
              [file_analysis_prompt |-> "Summarise",
               file_base64_array |-> Strs(<<Sample.pdfUrl>>)]
       [] OTHER -> EmptyObject)

ApiKey == [api_key |-> "sk-live"]

\* The option bags of a first invocation: every request with the
\* credential, one request per operation type without it.
OptionBags(rev) ==
    {ApiKey @@ r : r \in TaggedRequests(rev) \cup UntaggedRequests(rev)}
        \cup {k @@ Typical(op) :
                  k \in Missing("api_key"), op \in OperationTypes(rev)}
        \cup Missing("api_key")

\* The option bags of a later invocation: the complete request of a variant
\* that shapes its response, asking for a schema with and without one.
LaterBags(rev) ==
    {ApiKey @@ Typical(op) @@ f :
         op \in ShapedVariants(rev), f \in {MissingSchema, WithSchema}}

(***************************************************************************)
(* The host                                                                *)
(***************************************************************************)
\* The sequential host: one flow runs the operation, and may run it again
\* once it has ended.
Init ==
    /\ revision \in Revisions
    /\ \E o \in OptionBags(revision) : options = <<o>>
    /\ pc = <<"entry">>
    /\ calls = <<<<>>>>
    /\ outcome = <<Pending>>
    /\ locals = <<NoLocals>>
    /\ issuedFiles = 0
    /\ warnings = <<<<>>>>
    /\ schemaSupplied = FALSE

Ended(i) == pc[i] \in {"returned", "thrown"}

SuppliesSchema(o) ==
    response_format(o) = "json_schema" /\ Has(o, "json_schema")

\* The host invokes the handler again, with a new option bag.
Reinvoke(i) ==
    /\ Ended(i)
    /\ \E o \in LaterBags(revision) :
          options' = [options EXCEPT ![i] = o]
    /\ pc' = [pc EXCEPT ![i] = "entry"]
    /\ calls' = [calls EXCEPT ![i] = <<>>]
    /\ outcome' = [outcome EXCEPT ![i] = Pending]
    /\ locals' = [locals EXCEPT ![i] = NoLocals]
    /\ warnings' = [warnings EXCEPT ![i] = <<>>]
    /\ schemaSupplied' = (schemaSupplied \/ SuppliesSchema(options[i]))
    /\ UNCHANGED <<revision, issuedFiles>>

Next ==
    \/ \E i \in Invocations : Entry(i)
    \/ \E i \in Invocations : MainReturns(i)
    \/ \E i \in Invocations : MainThrows(i)
    \/ \E i \in Invocations : UploadReturns(i)
    \/ \E i \in Invocations : UploadThrows(i)
    \/ \E i \in Invocations : DeleteReturns(i)
    \/ \E i \in Invocations : DeleteThrows(i)
    \/ \E i \in Invocations : Reinvoke(i)

Spec == Init /\ [][Next]_vars

\* The handler leaves its entry point.  Under Next these are the steps of
\* Entry, which is enabled whenever an invocation is at its entry point.
Starts ==
    \E i \in Invocations :
        /\ pc[i] = "entry"
        /\ \E p \in {"main", "upload", "returned", "thrown"} :
               pc' = [pc EXCEPT ![i] = p]

\* The sequential host with the complete request of every operation type,
\* the two file variants with every list of files, and requests without
\* the credential.
InitLive ==
    LET bags ==
            {ApiKey @@ Typical(op) : op \in OperationTypes(revision)}
                \cup {ApiKey @@ [operation_type |-> op,
                                 file_analysis_prompt |-> "Summarise"] @@ l :
                          op \in FileVariants \cap Variants(revision),
                          l \in FileLists}
                \cup {k @@ Typical("text_generation") :
                          k \in Missing("api_key")}
    IN
    /\ revision \in Revisions
    /\ \E o \in bags : options = <<o>>
    /\ pc = <<"entry">>
    /\ calls = <<<<>>>>
    /\ outcome = <<Pending>>
    /\ locals = <<NoLocals>>
    /\ issuedFiles = 0
    /\ warnings = <<<<>>>>
    /\ schemaSupplied = FALSE

\* The host whose handler starts once invoked, with an upstream client
\* whose every call eventually returns or throws; the host need not invoke
\* the handler again.
SpecLive ==
    /\ InitLive
    /\ [][Next]_vars
    /\ WF_pc(Starts)
    /\ WF_vars(\E i \in Invocations :
                   \/ MainReturns(i) \/ MainThrows(i)
                   \/ UploadReturns(i) \/ UploadThrows(i)
                   \/ DeleteReturns(i) \/ DeleteThrows(i))


\* The concurrent host: two flows run the operation at the same time, each
\* with the complete request of some variant, a request with two files to
\* upload, a request without its required field, or a request without the
\* credential; each may run the operation again once it has ended.
InitConcurrent ==
    LET bags ==
            {ApiKey @@ Typical(op) :
                 op \in {"text_generation", "embeddings", "file_analysis",
                         "file_analysis_with_vector_search"}}
                \cup {ApiKey @@
                      [operation_type |-> "file_analysis_with_vector_search",
                       file_analysis_prompt |-> "Compare",
                       file_base64_array |->
                           Strs(<<Sample.pdfUrl, Sample.textUrl>>)],
                      ApiKey @@ [operation_type |-> "moderation"],
                      Typical("text_generation")}
    IN
    /\ revision \in Revisions
    /\ \E a \in bags, b \in bags : options = <<a, b>>
    /\ pc = <<"entry", "entry">>
    /\ calls = <<<<>>, <<>>>>
    /\ outcome = <<Pending, Pending>>
    /\ locals = <<NoLocals, NoLocals>>
    /\ issuedFiles = 0
    /\ warnings = <<<<>>, <<>>>>
    /\ schemaSupplied = FALSE

SpecConcurrent == InitConcurrent /\ [][Next]_vars

(***************************************************************************)
(* Properties of the error path                                            *)
(***************************************************************************)
\* An invocation that has ended by returning a value, and that value.
HasReturned(i) == pc[i] = "returned"
ResultOf(i) == outcome[i].result

HasFailed(i) == HasReturned(i) /\ ResultOf(i).success = FALSE
HasSucceeded(i) == HasReturned(i) /\ ResultOf(i).success = TRUE

Credentialed(i) == TruthyText(options[i], "api_key")

\* C1: the handler never throws: whatever the option bag and whatever the
\* upstream client does, no invocation ends by raising an exception to the
\* host.
HandlerNeverThrows == \A i \in Invocations : pc[i] /= "thrown"

\* An invocation without a credential has ended, and it ended by a throw
\* that left the handler.
MissingKeyThrown ==
    \E i \in Invocations :
        /\ ~Credentialed(i)
        /\ pc[i] = "thrown"
        /\ outcome[i].error.message = ApiKeyRequired

\* C2: an invocation whose api_key is missing or empty ends by returning a
\* Failure whose error.type is ConfigurationError, and has made no upstream
\* call.
MissingKeyIsConfigurationFailure ==
    \A i \in Invocations :
        (Ended(i) /\ ~Credentialed(i)) =>
            /\ HasFailed(i)
            /\ ResultOf(i).error.type = "ConfigurationError"
            /\ calls[i] = <<>>

\* The required fields of each variant, in the order in which its case
\* checks them; the two image sources are one requirement.
RequiredFields(op) ==
    CASE op = "text_generation" -> <<{"user_message"}>>
      [] op = "image_generation" -> <<{"image_prompt"}>>
      [] op = "image_analysis" -> <<{"image_url", "image_base64"}>>
      [] op = "file_search" -> <<{"search_query"}, {"vector_store_ids"}>>
      [] op = "file_search_with_image" ->
             <<{"search_query"}, {"vector_store_ids"},
               {"image_url", "image_base64"}>>
      [] op = "code_interpreter" -> <<{"code_input"}>>
      [] op \in {"embeddings", "moderation"} -> <<{"text_input"}>>
      [] op \in FileVariants -> <<{"file_analysis_prompt"}>>
      [] OTHER -> <<>>

\* The option f is missing or empty.
Blank(o, f) ==
    CASE f \in {"image_url", "image_base64"} -> ~TruthyChars(o, f)
      [] f = "vector_store_ids" -> NoVectorStores(o)
      [] OTHER -> ~TruthyText(o, f)

\* Requirement k of the variant is not met: each of its fields is blank.
Unmet(o, op, k) == \A f \in RequiredFields(op)[k] : Blank(o, f)

\* The words by which the messages of the handler name a required field,
\* and the operation.
FieldWords(fields) ==
    CASE fields = {"user_message"} -> "User message"
      [] fields = {"image_prompt"} -> "Image description"
      [] fields = {"image_url", "image_base64"} -> "Image URL or image base64"
      [] fields = {"search_query"} -> "Search query"
      [] fields = {"vector_store_ids"} -> "Vector store IDs"
      [] fields = {"code_input"} -> "Code input"
      [] fields = {"text_input"} -> "Text"
      [] fields = {"file_analysis_prompt"} -> "File analysis prompt"

OperationWords(op) ==
    CASE op = "text_generation" -> "text generation"
      [] op = "image_generation" -> "image generation"
      [] op = "image_analysis" -> "image analysis"
      [] op = "file_search" -> "file search"
      [] op = "file_search_with_image" -> "file search with image"
      [] op = "code_interpreter" -> "code interpretation"
      [] op = "embeddings" -> "embeddings"
      [] op = "moderation" -> "moderation"
      [] op = "file_analysis" -> "file analysis"
      [] op = "file_analysis_with_vector_search" ->
             "file analysis with vector search"

\* The message says that the fields are required for the operation.
NamesFields(message, fields, op) ==
    \E verb \in {" is required for ", " are required for "} :
        message = FieldWords(fields) \o verb \o OperationWords(op)

\* The operation types the claim about required fields lists.
ListedVariants ==
    {"text_generation", "image_generation", "image_analysis", "file_search",
     "code_interpreter", "embeddings", "moderation", "file_analysis"}

\* The invocation has ended, carried a credential, and asked for a listed
\* variant that the installed revision has a case for.
ListedRequest(i) ==
    /\ Ended(i)
    /\ Credentialed(i)
    /\ operation_type(options[i]) \in ListedVariants \cap Variants(revision)

\* The invocation returned the Failure that names requirement k of its
\* variant and repeats the operation type of the request.
RejectedFor(i, k) ==
    LET op == operation_type(options[i]) IN
    /\ HasFailed(i)
    /\ NamesFields(ResultOf(i).error.message, RequiredFields(op)[k], op)
    /\ ResultOf(i).error.operation_type = op

\* C3, as stated: whenever a required field of the variant is missing or
\* empty, the Failure names that field, whatever else is missing.
EveryMissingFieldIsNamed ==
    \A i \in Invocations :
        ListedRequest(i) =>
            LET op == operation_type(options[i]) IN
            \A k \in DOMAIN RequiredFields(op) :
                Unmet(options[i], op, k) => RejectedFor(i, k)

\* C3: with a credential, a listed variant and a required field missing or
\* empty, the invocation returns success:false, error.operation_type is the
\* operation type of the request, and error.message names that field,
\* provided every required field the case checks before it is present.
FirstMissingFieldIsNamed ==
    \A i \in Invocations :
        ListedRequest(i) =>
            LET op == operation_type(options[i]) IN
            \A k \in DOMAIN RequiredFields(op) :
                (/\ Unmet(options[i], op, k)
                 /\ \A j \in 1..(k - 1) : ~Unmet(options[i], op, j))
                    => RejectedFor(i, k)

\* A file_search request with its query and without vector stores has been
\* rejected with the message that names the vector stores.
SecondFieldRejected ==
    \E i \in Invocations :
        /\ ListedRequest(i)
        /\ operation_type(options[i]) = "file_search"
        /\ ~Unmet(options[i], "file_search", 1)
        /\ Unmet(options[i], "file_search", 2)
        /\ RejectedFor(i, 2)

\* Some requirement of the variant of the request is not met.
Incompletely(i) ==
    LET op == operation_type(options[i]) IN
    \E k \in DOMAIN RequiredFields(op) : Unmet(options[i], op, k)

\* C4: a missing required field is detected before the network: an
\* invocation with a credential and a required field of its variant missing
\* never issues an upstream call, and ends by returning a Failure.
MissingFieldMakesNoCall ==
    \A i \in Invocations :
        (/\ Credentialed(i)
         /\ operation_type(options[i]) \in Variants(revision)
         /\ Incompletely(i))
            => /\ calls[i] = <<>>
               /\ pc[i] \in {"entry", "returned"}
               /\ HasReturned(i) => ResultOf(i).success = FALSE

\* A moderation request without text_input has been rejected, with no
\* upstream call made.
ModerationRejectedLocally ==
    \E i \in Invocations :
        /\ Credentialed(i)
        /\ operation_type(options[i]) = "moderation"
        /\ Blank(options[i], "text_input")
        /\ HasFailed(i)
        /\ ResultOf(i).error.message = "Text is required for moderation"
        /\ calls[i] = <<>>

(***************************************************************************)
(* Properties of the response shape and the conversation handle            *)
(***************************************************************************)
\* The positions in the call log of the calls of the Responses endpoint.
ResponsesCalls(i) ==
    {k \in DOMAIN calls[i] : calls[i][k].api = "responses.create"}

\* The uploads the invocation has issued.
Uploads(i) == SelectSeq(calls[i], LAMBDA c : c.api = "files.create")

\* The request asks for a variant that shapes its response, has every
\* required field of the variant, and asks for the json_schema format
\* without a schema.
SchemaOmitted(i) ==
    /\ Credentialed(i)
    /\ operation_type(options[i]) \in ShapedVariants(revision)
    /\ ~Incompletely(i)
    /\ response_format(options[i]) = "json_schema"
    /\ ~Has(options[i], "json_schema")

\* The message starts with 'JSON schema is required'.
SaysSchemaRequired(message) ==
    \E rest \in {" when response format is json_schema"} :
        message = "JSON schema is required" \o rest

\* The image source of the request passes the checks of the image block: a
\* URL, a data URL, or text over the base64 alphabet.
WellFormedImage(o) ==
    \/ TruthyChars(o, "image_url")
    \/ StartsWith(o.image_base64, <<"d", "a", "t", "a", ":", "i", "m", "a", "g", "e", "/">>)
    \/ base64Regex(StripWhitespace(o.image_base64))

\* The value is an array of strings.
StringList(files) ==
    /\ files.t = "array"
    /\ \A k \in DOMAIN files.v : files.v[k].t = "string"

\* The inputs of the request pass the checks the case makes before its
\* schema check: a well-formed image source, a list of files that is a
\* list of strings (and not empty in file_analysis).
InputsUsable(i) ==
    LET op == operation_type(options[i]) IN
    CASE op = "text_generation" -> TRUE
      [] op \in {"image_analysis", "file_search_with_image"} ->
             WellFormedImage(options[i])
      [] op = "file_analysis" ->
             StringList(locals[i].files) /\ locals[i].files.v /= <<>>
      [] op = "file_analysis_with_vector_search" ->
             StringList(locals[i].files)

\* Nothing that the case does before its schema check has failed: the
\* inputs are usable and every upload issued has returned.
Unhindered(i) ==
    /\ InputsUsable(i)
    /\ Len(Uploads(i)) = Len(locals[i].uploadedFileIds)

\* C5, as stated: a request with its required fields (and usable inputs),
\* response_format = json_schema and no json_schema returns a Failure whose
\* message starts with 'JSON schema is required'.
MissingSchemaAlwaysReported ==
    \A i \in Invocations :
        (HasReturned(i) /\ SchemaOmitted(i) /\ InputsUsable(i)) =>
            /\ ResultOf(i).success = FALSE
            /\ SaysSchemaRequired(ResultOf(i).error.message)

\* An upload of file_analysis_with_vector_search was rejected before the
\* case came to its schema check: the Failure carries the message of the
\* upload, not that of the missing schema.
SchemaCheckPreempted ==
    \E i \in Invocations :
        /\ HasFailed(i)
        /\ SchemaOmitted(i)
        /\ InputsUsable(i)
        /\ calls[i] /= <<>>
        /\ LastCall(i).api = "files.create"
        /\ ~SaysSchemaRequired(ResultOf(i).error.message)

\* What does hold of the requests of C5: such a request never reaches the
\* Responses endpoint and returns a Failure, whatever an earlier invocation
\* supplied; the message of the Failure starts with 'JSON schema is
\* required' unless a step the case takes before its schema check has
\* failed (a malformed image_base64, an unusable file list, a rejected
\* upload).
MissingSchemaIsRejected ==
    \A i \in Invocations :
        SchemaOmitted(i) =>
            /\ ResponsesCalls(i) = {}
            /\ Ended(i) => HasFailed(i)
            /\ (HasReturned(i) /\ Unhindered(i)) =>
                   SaysSchemaRequired(ResultOf(i).error.message)

\* After an invocation that carried a schema, an invocation that asks for
\* json_schema without one has been rejected for the missing schema.
SchemaNotRemembered ==
    \E i \in Invocations :
        /\ schemaSupplied
        /\ SchemaOmitted(i)
        /\ HasFailed(i)
        /\ SaysSchemaRequired(ResultOf(i).error.message)

\* Every Responses call of the invocation carries the previous_response_id
\* of the request, when the request has one.
PreviousForwarded(i) ==
    TruthyText(options[i], "previous_response_id") =>
        \A k \in ResponsesCalls(i) :
            /\ Has(calls[i][k].params, "previous_response_id")
            /\ calls[i][k].params.previous_response_id
                   = options[i].previous_response_id

\* The result carries the id of the response of the main call.
IdReturned(i) ==
    /\ Has(ResultOf(i), "response_id")
    /\ ResultOf(i).response_id = locals[i].response.id

\* C6, as stated: in every revision a supplied previous_response_id is in
\* the parameters of the Responses call unchanged, and the response_id of a
\* success is the id the call returned.
HandlePassedThroughEverywhere ==
    \A i \in Invocations :
        /\ PreviousForwarded(i)
        /\ (HasSucceeded(i) /\ ResponsesCalls(i) /= {}) => IdReturned(i)

\* C6: a supplied (non-empty) previous_response_id is in the parameters of
\* the Responses call unchanged, in every revision and for every value of
\* the other options; the response_id of a success is the id the call
\* returned, except in revision part_000 with store_response false, where
\* the success is { success: true, data: {} } and has no response_id.
HandlePassedThrough ==
    \A i \in Invocations :
        /\ PreviousForwarded(i)
        /\ (HasSucceeded(i) /\ ResponsesCalls(i) /= {}) =>
               IF revision = "part_000" /\ ~store_response(options[i])
               THEN ResultOf(i) = [success |-> TRUE, data |-> EmptyObject]
               ELSE IdReturned(i)

\* A request with a previous_response_id has succeeded: its Responses call
\* carried the handle and its result carries the id of the response.
HandleRoundTrip ==
    \E i \in Invocations :
        /\ TruthyText(options[i], "previous_response_id")
        /\ HasSucceeded(i)
        /\ ResponsesCalls(i) /= {}
        /\ PreviousForwarded(i)
        /\ IdReturned(i)

\* The two cases of OperationResult.
IsSuccess(r) ==
    /\ r.success = TRUE
    /\ "data" \in DOMAIN r
    /\ DOMAIN r \subseteq {"success", "data", "response_id"}

IsFailure(r) ==
    /\ r.success = FALSE
    /\ DOMAIN r = {"success", "error"}
    /\ {"message", "type", "operation_type"} \subseteq DOMAIN r.error

\* The main call of the variant has returned a response.
MainCallReturned(i) == locals[i].response /= EmptyObject

\* C7: every returned result is a Success (success:true, data, no error) or
\* a Failure (success:false, an error with message, type and
\* operation_type, no data), never a mix; and a Success is returned only
\* after the main upstream call of the variant returned.
ResultIsOneCase ==
    \A i \in Invocations :
        HasReturned(i) =>
            /\ IsSuccess(ResultOf(i)) \/ IsFailure(ResultOf(i))
            /\ ~(IsSuccess(ResultOf(i)) /\ IsFailure(ResultOf(i)))
            /\ ResultOf(i).success = TRUE => MainCallReturned(i)

\* The main call of an invocation was rejected, and the invocation returned
\* a Failure.
UpstreamFailureReturned ==
    \E i \in Invocations :
        /\ HasReturned(i)
        /\ calls[i] /= <<>>
        /\ LastCall(i).api = "responses.create"
        /\ ~MainCallReturned(i)
        /\ IsFailure(ResultOf(i))

(***************************************************************************)
(* Properties of the binary inputs                                         *)
(***************************************************************************)
\* The content list of the user message of a Responses call.
UserContent(call) == call.params.input[Len(call.params.input)].content

\* The URLs of the input_image and input_file items of a Responses call.
SentUrls(call) ==
    {IF UserContent(call)[k].type = "input_image"
     THEN UserContent(call)[k].image_url
     ELSE UserContent(call)[k].file_url :
         k \in {n \in DOMAIN UserContent(call) :
                    UserContent(call)[n].type \in {"input_image", "input_file"}}}

\* The string entries of the list of files of the invocation.
FileEntries(i) ==
    IF locals[i].files.t = "array"
    THEN {locals[i].files.v[k].v :
              k \in {n \in DOMAIN locals[i].files.v :
                         locals[i].files.v[n].t = "string"}}
    ELSE {}

\* The prefixes of base64 text that tell a content type.
MagicHeaders ==
    {<<<<"i", "V", "B", "O", "R", "w", "0", "K", "G", "g", "o">>, <<"i", "m", "a", "g", "e", "/", "p", "n", "g">>>>, <<<<"/", "9", "j", "/">>, <<"i", "m", "a", "g", "e", "/", "j", "p", "e", "g">>>>,
     <<<<"J", "V", "B", "E", "R", "i", "0">>, <<"a", "p", "p", "l", "i", "c", "a", "t", "i", "o", "n", "/", "p", "d", "f">>>>}

\* The base64 payloads of the request that come without a MIME type and
\* that the variant sniffs: image_base64 when it is the image source and no
\* data URL, the entries of the file list of file_analysis.
SniffedPayloads(i) ==
    LET o == options[i] IN
    CASE operation_type(o) \in {"image_analysis", "file_search_with_image"} ->
             IF /\ ~TruthyChars(o, "image_url")
                /\ TruthyChars(o, "image_base64")
                /\ ~StartsWith(o.image_base64, <<"d", "a", "t", "a", ":", "i", "m", "a", "g", "e", "/">>)
             THEN {o.image_base64} ELSE {}
      [] operation_type(o) = "file_analysis" -> FileEntries(i) \ {<<>>}
      [] OTHER -> {}

\* C8: in image_analysis, file_search_with_image and file_analysis, a
\* base64 payload without MIME type that starts with 'iVBORw0KGgo' is sent
\* upstream in a data URL labelled image/png, one that starts with '/9j/'
\* in a data URL labelled image/jpeg, one that starts with 'JVBERi0' in a
\* data URL labelled application/pdf.
SniffedLabelIsSent ==
    \A i \in Invocations :
        (Credentialed(i) /\ revision = "api.ts") =>
            \A k \in ResponsesCalls(i) :
            \A payload \in SniffedPayloads(i) :
            \A h \in MagicHeaders :
                StartsWith(payload, h[1]) =>
                    \E url \in SentUrls(calls[i][k]) :
                        url \in {<<"d", "a", "t", "a", ":">> \o h[2] \o <<";", "b", "a", "s", "e", "6", "4", ",">> \o payload,
                                 <<"d", "a", "t", "a", ":">> \o h[2] \o <<";", "b", "a", "s", "e", "6", "4", ",">>
                                     \o StripWhitespace(payload)}

\* A file_analysis request has sent a payload that starts with
\* 'iVBORw0KGgo' in a data URL labelled image/jpeg.
PngSentAsJpeg ==
    \E i \in Invocations :
        /\ operation_type(options[i]) = "file_analysis"
        /\ \E k \in ResponsesCalls(i) :
           \E payload \in SniffedPayloads(i) :
               /\ StartsWith(payload, <<"i", "V", "B", "O", "R", "w", "0", "K", "G", "g", "o">>)
               /\ <<"d", "a", "t", "a", ":", "i", "m", "a", "g", "e", "/", "j", "p", "e", "g", ";", "b", "a", "s", "e", "6", "4", ",">> \o payload
                      \in SentUrls(calls[i][k])

\* The base64 part of a payload: of a data URL what follows ';base64,', of
\* other text all of it.
Base64Part(text) ==
    IF DataUrlMatch(text).ok THEN DataUrlMatch(text).base64Data ELSE text

\* The payload has a character outside the base64 alphabet.
MalformedPayload(text) == ~base64Regex(StripWhitespace(Base64Part(text)))

\* The base64 payloads the request supplies to its variant.
SuppliedPayloads(i) ==
    LET o == options[i] IN
    CASE operation_type(o) = "image_analysis" ->
             IF ~TruthyChars(o, "image_url") /\ TruthyChars(o, "image_base64")
             THEN {o.image_base64} ELSE {}
      [] operation_type(o) \in FileVariants -> FileEntries(i) \ {<<>>}
      [] OTHER -> {}

\* The text s ends with the text t.
EndsWith(s, t) ==
    Len(t) <= Len(s) /\ SubSeq(s, Len(s) - Len(t) + 1, Len(s)) = t

\* The call carries the base64 part of the payload as it is: in a URL of a
\* Responses call.  (An upload carries decoded bytes.)
Carries(call, payload) ==
    /\ call.api = "responses.create"
    /\ \E url \in SentUrls(call) : EndsWith(url, Base64Part(payload))

\* C9: in image_analysis, file_analysis and
\* file_analysis_with_vector_search, a supplied base64 payload with a
\* character outside the base64 alphabet makes the invocation return a
\* Failure, and the payload is never sent upstream.
MalformedPayloadIsRejected ==
    \A i \in Invocations :
        (/\ Credentialed(i)
         /\ revision = "api.ts"
         /\ pc[i] /= "entry"
         /\ ~Incompletely(i))
            => \A payload \in SuppliedPayloads(i) :
                   MalformedPayload(payload) =>
                       /\ Ended(i) => HasFailed(i)
                       /\ \A k \in DOMAIN calls[i] :
                              ~Carries(calls[i][k], payload)

\* A file_analysis request has sent the payload '!!!' upstream and has
\* returned a Success.
MalformedPayloadAccepted ==
    \E i \in Invocations :
        /\ operation_type(options[i]) = "file_analysis"
        /\ HasSucceeded(i)
        /\ Sample.malformed \in SuppliedPayloads(i)
        /\ MalformedPayload(Sample.malformed)
        /\ \E k \in DOMAIN calls[i] : Carries(calls[i][k], Sample.malformed)

\* The request carries file_base64_array as text, in a file variant, and
\* the case has parsed it.
FilesGivenAsText(i) ==
    /\ pc[i] /= "entry"
    /\ Credentialed(i)
    /\ revision = "api.ts"
    /\ operation_type(options[i]) \in FileVariants
    /\ ~Incompletely(i)
    /\ Has(options[i], "file_base64_array")
    /\ options[i].file_base64_array.t = "string"
    /\ options[i].file_base64_array.v /= <<>>

FilesText(i) == options[i].file_base64_array.v

\* The text has neither a quote nor a backslash.
Plain(text) == \A k \in DOMAIN text : text[k] \notin {"\"", "\\"}

\* When the text is no JSON once un-escaped, the list of files is the text
\* alone, and the invocation goes on to its upstream calls: the one local
\* failure left is the missing schema.
DegradesToRawText(i) ==
    ~JSONParse(unescapedString(FilesText(i))).ok =>
        /\ locals[i].files = Arr(<<Str(FilesText(i))>>)
        /\ HasFailed(i) =>
               \/ calls[i] /= <<>>
               \/ SaysSchemaRequired(ResultOf(i).error.message)

\* C10, as stated: the text of a JSON array of two strings yields the
\* sequence of those two strings, whatever the strings are; text that does
\* not parse yields the one-element sequence of the raw text and does not
\* fail the call.
ArrayTextYieldsItsStrings ==
    \A i \in Invocations :
        FilesGivenAsText(i) =>
            /\ \A pair \in TextPairs :
                   FilesText(i) = JSONText(pair) =>
                       locals[i].files = Strs(pair)
            /\ DegradesToRawText(i)

\* C10: file_base64_array given as text is un-escaped and JSON-parsed: the
\* text of a JSON array of two strings that hold neither a quote nor a
\* backslash, as it is or with its quotes escaped once more, yields the
\* sequence of those two strings; text that does not parse yields the
\* one-element sequence of the raw text and does not fail the call.
PlainArrayTextYieldsItsStrings ==
    \A i \in Invocations :
        FilesGivenAsText(i) =>
            /\ \A pair \in {p \in TextPairs : Plain(p[1]) /\ Plain(p[2])} :
                   FilesText(i) \in {JSONText(pair),
                                     DoubleEscaped(JSONText(pair))} =>
                       locals[i].files = Strs(pair)
            /\ DegradesToRawText(i)

\* A file variant was given the text of a two-string array with its quotes
\* escaped once more, and its list of files is the two strings.
EscapedArrayTextParsed ==
    \E i \in Invocations :
        /\ FilesGivenAsText(i)
        /\ FilesText(i) = DoubleEscaped(JSONText(<<Sample.png, Sample.pdf>>))
        /\ locals[i].files = Strs(<<Sample.png, Sample.pdf>>)

(***************************************************************************)
(* Properties of the cleanup of uploaded files                             *)
(***************************************************************************)
\* The file ids for which the invocation has issued a delete.
DeleteAttempts(i) ==
    {calls[i][k].params.file_id :
        k \in {n \in DOMAIN calls[i] : calls[i][n].api = "files.del"}}

\* The file ids the invocation obtained from the uploads that returned.
ObtainedFileIds(i) ==
    {locals[i].uploadedFileIds[k] : k \in DOMAIN locals[i].uploadedFileIds}

VectorAnalysis(i) ==
    /\ revision = "api.ts"
    /\ operation_type(options[i]) = "file_analysis_with_vector_search"

\* C11: when a file_analysis_with_vector_search invocation has returned,
\* with a Success or with a Failure, a delete has been attempted for every
\* file id it obtained from an upload.
EveryUploadGetsDeleteAttempt ==
    \A i \in Invocations :
        (VectorAnalysis(i) /\ HasReturned(i)) =>
            ObtainedFileIds(i) \subseteq DeleteAttempts(i)

\* An invocation uploaded a file, its main call was rejected, and it
\* returned the Failure without a delete for the file.
UploadLeftUndeleted ==
    \E i \in Invocations :
        /\ VectorAnalysis(i)
        /\ HasFailed(i)
        /\ ObtainedFileIds(i) /= {}
        /\ LastCall(i).api = "responses.create"
        /\ DeleteAttempts(i) = {}

\* What the cleanup loop does guarantee: after a main call that returned,
\* every obtained file id has had its delete attempt by the time the
\* invocation returns.
CleanupAfterMainCall ==
    \A i \in Invocations :
        (VectorAnalysis(i) /\ HasReturned(i) /\ MainCallReturned(i)) =>
            ObtainedFileIds(i) \subseteq DeleteAttempts(i)

\* The file ids of the deletes the invocation has issued, in order.
DeletedInOrder(i) ==
    LET dels == SelectSeq(calls[i], LAMBDA c : c.api = "files.del")
    IN  [k \in DOMAIN dels |-> dels[k].params.file_id]

\* C12: a failing delete does not change the outcome: when the main call of
\* a file_analysis_with_vector_search invocation with uploads returned, the
\* invocation returns the Success built from that response, whether its
\* deletes returned or threw, and it has attempted the delete of every
\* uploaded file id, each once and in the order of the uploads.
DeleteFailureIsSilent ==
    \A i \in Invocations :
        (/\ VectorAnalysis(i)
         /\ Ended(i)
         /\ MainCallReturned(i)
         /\ ObtainedFileIds(i) /= {}) =>
            /\ HasSucceeded(i)
            /\ ResultOf(i).response_id = locals[i].response.id
            /\ ResultOf(i).data.content = locals[i].response.output_text
            /\ ResultOf(i).data.processed_files_count =
                   LengthOf(locals[i].files)
            /\ DeletedInOrder(i) = locals[i].uploadedFileIds

\* The delete of the first of two uploaded files threw, the delete of the
\* second was attempted all the same, and the invocation returned the
\* Success.
DeleteFailedSuccessReturned ==
    \E i \in Invocations :
        /\ VectorAnalysis(i)
        /\ HasSucceeded(i)
        /\ Len(locals[i].uploadedFileIds) = 2
        /\ warnings[i] /= <<>>
        /\ warnings[i][1].file_id = locals[i].uploadedFileIds[1]
        /\ locals[i].uploadedFileIds[2] \in DeleteAttempts(i)

(***************************************************************************)
(* Properties of variant selection                                         *)
(***************************************************************************)
\* The option bag of the invocation without the options of other variants.
Own(i) ==
    Restrict(options[i], Reads(revision, operation_type(options[i])))

\* The options of other variants the invocation carries.
ForeignOptions(i) == DOMAIN options[i] \ DOMAIN Own(i)

\* The content of the file just uploaded joins the user content.
WithUpload(i) ==
    Append(locals[i].content,
           [type |-> "input_file", file_id |-> FileId(issuedFiles + 1)])

\* C13: no bleed between variants: at every step of an invocation, what the
\* handler does with the option bag (its credential check, its first
\* segment, the segment after each upload, the result it builds from each
\* upstream response and the Failure it builds from each thrown value) is
\* what it does with the same bag without the options of other variants;
\* hence the two requests issue the same upstream calls with the same
\* parameters and, for the same upstream responses, return the same result.
ForeignFieldsIgnored ==
    \A i \in Invocations :
        LET o == options[i]
            own == Own(i)
            l == locals[i]
        IN  /\ TruthyText(o, "api_key") = TruthyText(own, "api_key")
            /\ Switch(revision, o) = Switch(revision, own)
            /\ EntryLocals(revision, o) = EntryLocals(revision, own)
            /\ (pc[i] \notin {"entry", "thrown"} /\ calls[i] /= <<>>) =>
                   /\ Switch(revision, own).kind \in {"await", "upload"}
                   /\ calls[i][1].params = Switch(revision, own).params
            /\ (HasReturned(i) /\ calls[i] = <<>>) =>
                   /\ Switch(revision, own).kind = "throw"
                   /\ ResultOf(i) =
                          ErrorResult(Switch(revision, own).error, own)
            /\ pc[i] = "upload" =>
                   VectorSearchFrom(o, l.files, l.i + 1, WithUpload(i))
                       = VectorSearchFrom(own, l.files, l.i + 1, WithUpload(i))
            /\ pc[i] = "main" =>
                   \A r \in UpstreamResponses(LastCall(i)) :
                       /\ Result(o, r, l.files) = Result(own, r, l.files)
                       /\ Result(o, r, l.files).kind = "ok" =>
                              Returned(revision, o, Result(o, r, l.files).result)
                                  = Returned(revision, own,
                                             Result(own, r, l.files).result)
            /\ pc[i] \in {"main", "upload"} =>
                   \A e \in ThrownValues : ErrorResult(e, o) = ErrorResult(e, own)

\* A text_generation request carrying the prompt, query, text and system
\* messages of other variants has sent the user message alone and returned
\* a Success.
ForeignFieldsCarried ==
    \E i \in Invocations :
        /\ revision = "api.ts"
        /\ operation_type(options[i]) = "text_generation"
        /\ {"image_prompt", "search_query", "text_input",
            "system_message_image", "system_message"} \subseteq ForeignOptions(i)
        /\ HasSucceeded(i)
        /\ calls[i][1].params.input = UserMessage(options[i].user_message)

\* The option bag of the invocation with operation_type text_generation
\* written out.
Tagged(i) == [operation_type |-> "text_generation"] @@ options[i]

Untagged(i) == ~Has(options[i], "operation_type")

\* C14: an invocation whose option bag has no operation_type behaves as if
\* operation_type were text_generation: the same validation and first
\* segment, the same upstream call, the same result from each upstream
\* response, the same Failure from each thrown value, and a Failure reports
\* error.operation_type text_generation.
AbsentTypeIsTextGeneration ==
    \A i \in Invocations :
        Untagged(i) =>
            LET o == options[i]
                t == Tagged(i)
            IN  /\ operation_type(o) = "text_generation"
                /\ Switch(revision, o) = Switch(revision, t)
                /\ Switch(revision, o) =
                       TextGeneration(t, SystemField(revision, "text_generation"))
                /\ (pc[i] \notin {"entry", "thrown"} /\ calls[i] /= <<>>) =>
                       /\ Len(calls[i]) = 1
                       /\ calls[i][1].api = "responses.create"
                       /\ calls[i][1].params = Switch(revision, t).params
                /\ pc[i] = "main" =>
                       \A r \in UpstreamResponses(LastCall(i)) :
                           Result(o, r, locals[i].files)
                               = Result(t, r, locals[i].files)
                /\ \A e \in ThrownValues : ErrorResult(e, o) = ErrorResult(e, t)
                /\ HasFailed(i) =>
                       ResultOf(i).error.operation_type = "text_generation"
                /\ HasSucceeded(i) =>
                       ResultOf(i) =
                           Returned(revision, t,
                               Result(t, locals[i].response,
                                      locals[i].files).result)

\* A request without operation_type made the text generation call, the
\* call was rejected, and the Failure reports text_generation.
UntaggedFailureReported ==
    \E i \in Invocations :
        /\ Untagged(i)
        /\ HasFailed(i)
        /\ calls[i] /= <<>>
        /\ LastCall(i).api = "responses.create"
        /\ LastCall(i).params.input[Len(LastCall(i).params.input)].content
               = options[i].user_message
        /\ ResultOf(i).error.operation_type = "text_generation"

(***************************************************************************)
(* Properties of the Failure envelope                                      *)
(***************************************************************************)
\* The Failure of the invocation says that a required field of its variant
\* is missing.
FailedForMissingField(i) ==
    /\ HasFailed(i)
    /\ \E k \in DOMAIN RequiredFields(operation_type(options[i])) :
           NamesFields(ResultOf(i).error.message,
                       RequiredFields(operation_type(options[i]))[k],
                       operation_type(options[i]))

\* The Failure of the invocation reports malformed base64 or a missing
\* JSON schema.
FailedValidation(i) ==
    /\ HasFailed(i)
    /\ ResultOf(i).error.message \in {InvalidBase64, JsonSchemaRequired}

\* The upstream call the invocation awaited last was rejected with an
\* Error, which the Failure reports.
FailedUpstream(i) ==
    /\ HasFailed(i)
    /\ calls[i] /= <<>>
    /\ \E e \in ThrownValues :
           e.kind = "Error" /\ ResultOf(i) = ErrorResult(e, options[i])

\* C15: the error taxonomy of the Failure envelope: a Failure for a missing
\* required field has error.type ConfigurationError, a Failure for
\* malformed base64 or for a missing JSON schema has error.type
\* ValidationError, and only a Failure raised by the upstream client has
\* the name of the upstream error.
FailureTypesFollowTaxonomy ==
    \A i \in Invocations :
        /\ FailedForMissingField(i) =>
               ResultOf(i).error.type = "ConfigurationError"
        /\ FailedValidation(i) => ResultOf(i).error.type = "ValidationError"
        /\ (HasFailed(i) /\ ResultOf(i).error.type = "APIError") =>
               FailedUpstream(i)

\* A request without its required field has returned a Failure whose
\* error.type is Error.
MissingFieldTypedError ==
    \E i \in Invocations :
        /\ FailedForMissingField(i)
        /\ calls[i] = <<>>
        /\ ResultOf(i).error.type = "Error"

\* What the catch block does guarantee: every Failure for an error that the
\* handler raised itself has the type Error, whatever the kind of the
\* failure; the name of an upstream error appears only after an upstream
\* rejection.
LocalFailuresAreTypedError ==
    \A i \in Invocations :
        /\ (FailedForMissingField(i) \/ FailedValidation(i)) =>
               ResultOf(i).error.type = "Error"
        /\ (HasFailed(i) /\ ResultOf(i).error.type = "APIError") =>
               FailedUpstream(i)

(***************************************************************************)
(* Properties of the upstream calls                                        *)
(***************************************************************************)
MainApis ==
    {"responses.create", "embeddings.create", "moderations.create",
     "models.list"}

\* The positions in the call log of the main request of the variant.
MainCalls(i) == {k \in DOMAIN calls[i] : calls[i][k].api \in MainApis}

\* C16: no retries: an invocation issues the main upstream request of its
\* variant at most once; when that request is rejected the invocation
\* issues no further call and returns one Failure, built from the rejection.
MainCallIssuedOnce ==
    \A i \in Invocations :
        /\ Cardinality(MainCalls(i)) <= 1
        /\ pc[i] = "main" => MainCalls(i) = {Len(calls[i])}
        /\ (MainCalls(i) /= {} /\ Ended(i) /\ ~MainCallReturned(i)) =>
               /\ MainCalls(i) = {Len(calls[i])}
               /\ HasFailed(i)
               /\ \E e \in ThrownValues :
                      ResultOf(i) = ErrorResult(e, options[i])

\* The embeddings call was rejected once, and the invocation has returned
\* the Failure with that call as its only call.
MainCallRejectedOnce ==
    \E i \in Invocations :
        /\ HasFailed(i)
        /\ Len(calls[i]) = 1
        /\ calls[i][1].api = "embeddings.create"
        /\ ResultOf(i).error.type = "APIError"

(***************************************************************************)
(* Properties of the option schema declarator                              *)
(***************************************************************************)
\* The form of the current definition, filled in as the option bag of the
\* invocation.
CurrentForm(i) == FormValues("first", options[i])

\* The dispatcher found no case for the operation type.
FailedForUnknownType(i) ==
    /\ HasFailed(i)
    /\ ResultOf(i) =
           ErrorResult(UnknownOperation(options[i]).error, options[i])

\* Every field that the Failure of the invocation calls required is shown
\* by the current form for the values of the request.
RequiredFieldsShown(i) ==
    LET op == operation_type(options[i]) IN
    /\ \A k \in DOMAIN RequiredFields(op) :
           NamesFields(ResultOf(i).error.message, RequiredFields(op)[k], op)
               => \A f \in RequiredFields(op)[k] :
                      Visible("first", f, CurrentForm(i))
    /\ ResultOf(i).error.message = JsonSchemaRequired
           => Visible("first", "json_schema", CurrentForm(i))

\* C17: declarator and dispatcher are in sync in the current revision: the
\* dispatcher has a case for every operation type the form offers, and
\* every field for whose absence the dispatcher rejects a request (a
\* required field of the variant, or json_schema under the json_schema
\* format) is shown by the form for that request's operation type.
DeclaratorInSync ==
    \A i \in Invocations :
        (revision = "api.ts" /\ Credentialed(i) /\ HasFailed(i)) =>
            /\ operation_type(options[i]) \in choices("first")
                   => ~FailedForUnknownType(i)
            /\ RequiredFieldsShown(i)

\* A file_analysis request without its prompt has been rejected for it, and
\* the form declares no field of that name.
RequiredFieldNotDeclared ==
    \E i \in Invocations :
        /\ revision = "api.ts"
        /\ operation_type(options[i]) = "file_analysis"
        /\ FailedForMissingField(i)
        /\ \A k \in DOMAIN appOptions["first"] :
               appOptions["first"][k].field /= "file_analysis_prompt"
        /\ ~Visible("first", "file_analysis_prompt", CurrentForm(i))

\* What does hold of the current revision: for the operation types the
\* form offers, the dispatcher has a case and the form shows every field
\* for whose absence the dispatcher rejects the request.
OfferedVariantsInSync ==
    \A i \in Invocations :
        (/\ revision = "api.ts"
         /\ Credentialed(i)
         /\ HasFailed(i)
         /\ operation_type(options[i]) \in choices("first")) =>
            /\ ~FailedForUnknownType(i)
            /\ RequiredFieldsShown(i)

\* The operation-specific fields of a definition: every field but api_key,
\* operation_type and model.
OperationFields ==
    [d \in {"first", "second"} |->
        {appOptions[d][k].field : k \in DOMAIN appOptions[d]}
            \ {"api_key", "operation_type", "model"}]

\* The operation types a field belongs to: those its conditions name.
BelongsTo ==
    [d \in {"first", "second"} |->
        [field \in OperationFields[d] |->
            UNION {UNION {appOptions[d][k].conditions[c].rule.operation_type :
                              c \in DOMAIN appOptions[d][k].conditions} :
                       k \in {n \in DOMAIN appOptions[d] :
                                  appOptions[d][n].field = field}}]]

\* In definition d, for the form filled in as the option bag, a visible
\* operation-specific field belongs to the selected operation type, and
\* json_schema is visible only under the json_schema format.
StrictlyDisplayed(d, o) ==
    LET values == FormValues(d, o) IN
    \A f \in OperationFields[d] :
        Visible(d, f, values) =>
            /\ values.operation_type \in BelongsTo[d][f]
            /\ f = "json_schema" => values.response_format = "json_schema"

\* C18, as stated: strict conditional display in the declarator, in each of
\* its definitions: whatever operation type is selected, an
\* operation-specific field is visible only if it belongs to that operation
\* type, and json_schema only if in addition response_format is
\* json_schema.
StrictDisplayEverywhere ==
    \A i \in Invocations :
        \A d \in {"first", "second"} : StrictlyDisplayed(d, options[i])

\* C18: strict conditional display in the current definition of the
\* declarator: whatever operation type is selected, an operation-specific
\* field is visible only if it belongs to that operation type, which is one
\* whose case in the dispatcher reads the field, and json_schema only if in
\* addition response_format is json_schema.
StrictDisplayCurrent ==
    \A i \in Invocations :
        /\ StrictlyDisplayed("first", options[i])
        /\ \A f \in OperationFields["first"] :
               Visible("first", f, CurrentForm(i)) =>
                   f \in Reads("api.ts", CurrentForm(i).operation_type)

\* A file_search_with_image request under the json_schema format has run:
\* the form shows its json_schema and image_url fields and hides
\* image_prompt, user_message and text_input.
SchemaFieldShownOnDemand ==
    \E i \in Invocations :
        /\ pc[i] /= "entry"
        /\ CurrentForm(i).operation_type = "file_search_with_image"
        /\ CurrentForm(i).response_format = "json_schema"
        /\ Visible("first", "json_schema", CurrentForm(i))
        /\ Visible("first", "image_url", CurrentForm(i))
        /\ \A f \in {"image_prompt", "user_message", "text_input"} :
               ~Visible("first", f, CurrentForm(i))

(***************************************************************************)
(* Properties of concurrent invocations                                    *)
(***************************************************************************)
\* The uploads and the main call that file_analysis_with_vector_search
\* issues from iteration `from` of its file loop when its uploads return
\* the file ids `ids` in turn.
RECURSIVE CallsFrom(_, _, _, _, _)
CallsFrom(o, files, from, content, ids) ==
    LET next == VectorSearchFrom(o, files, from, content) IN
    IF next.step.kind = "throw" THEN <<>>
    ELSE IF next.step.kind = "await"
    THEN <<[api |-> next.step.api, params |-> next.step.params]>>
    ELSE <<[api |-> "files.create", params |-> next.step.params]>> \o
         (IF ids = <<>> THEN <<>>
          ELSE CallsFrom(o, files, next.i + 1,
                   Append(next.content,
                          [type |-> "input_file", file_id |-> Head(ids)]),
                   Tail(ids)))

\* The call log of the invocation run alone on its option bag, with the
\* file ids and the deletes it has had so far.
AloneCalls(i) ==
    LET o == options[i]
        first == Switch(revision, o)
    IN  IF pc[i] = "entry" \/ ~Credentialed(i) \/ first.kind = "throw"
        THEN <<>>
        ELSE IF VectorAnalysis(i)
        THEN CallsFrom(o, parsedFileBase64Array(o), 0,
                       <<[type |-> "input_text",
                          text |-> o.file_analysis_prompt]>>,
                       locals[i].uploadedFileIds)
             \o [k \in 1..Len(DeletedInOrder(i)) |->
                    [api |-> "files.del",
                     params |-> [file_id |-> locals[i].uploadedFileIds[k]]]]
        ELSE <<[api |-> first.api, params |-> first.params]>>

\* The errors the handler itself may have raised in the invocation.
OwnThrows(i) ==
    LET o == options[i]
        l == locals[i]
        first == Switch(revision, o)
        later == VectorSearchFrom(o, l.files, l.i, l.content).step
        built == Result(o, l.response, l.files)
    IN  (IF first.kind = "throw" THEN {first.error} ELSE {})
            \cup (IF VectorAnalysis(i) /\ l.content /= <<>>
                     /\ later.kind = "throw"
                  THEN {later.error} ELSE {})
            \cup (IF MainCallReturned(i) /\ built.kind = "throw"
                  THEN {built.error} ELSE {})

\* The result of the invocation is the one the handler builds from the
\* invocation's own option bag and its own upstream responses.
AloneResult(i) ==
    /\ HasSucceeded(i) =>
           /\ MainCallReturned(i)
           /\ ResultOf(i) =
                  Returned(revision, options[i],
                      Result(options[i], locals[i].response,
                             locals[i].files).result)
    /\ HasFailed(i) =>
           \E e \in ThrownValues \cup OwnThrows(i) :
               ResultOf(i) = ErrorResult(e, options[i])
    /\ pc[i] = "thrown" =>
           ~Credentialed(i) /\ outcome[i].error = NewError(ApiKeyRequired)

\* C19: invocations are independent: in every interleaving of two
\* concurrent invocations, each has issued the upstream calls, and returns
\* the result, of its run alone on its option bag with the upstream
\* responses it received; the file ids it deletes are file ids it uploaded
\* itself.
InvocationsIndependent ==
    \A i \in Invocations :
        /\ calls[i] = AloneCalls(i)
        /\ AloneResult(i)
        /\ DeleteAttempts(i) \subseteq ObtainedFileIds(i)

\* Two invocations with two files each uploaded them in turns, and each
\* has deleted its own two files and returned its Success.
InterleavedUploadsCleaned ==
    /\ Invocations = {1, 2}
    /\ locals[1].uploadedFileIds = <<FileId(1), FileId(3)>>
    /\ locals[2].uploadedFileIds = <<FileId(2), FileId(4)>>
    /\ \A i \in Invocations :
           /\ HasSucceeded(i)
           /\ DeleteAttempts(i) = ObtainedFileIds(i)

\* The state one invocation owns.
LocalState(i) ==
    <<options[i], pc[i], calls[i], outcome[i], locals[i], warnings[i]>>

\* A step of one invocation writes nothing the other invocation owns.
StepsAreLocal ==
    [][\A i, j \in Invocations :
           (i /= j /\ LocalState(i)' /= LocalState(i))
               => LocalState(j)' = LocalState(j)]_vars

(***************************************************************************)
(* Properties of the catch block                                           *)
(***************************************************************************)
\* The Failure envelope reports the thrown value: the constructor name and
\* message of an Error; a string as the message, with type UnknownError;
\* for any other value UnknownError and 'Unknown error occurred'.
Reports(error, thrown) ==
    CASE thrown.kind = "Error" ->
             error.type = thrown.name /\ error.message = thrown.message
      [] thrown.kind = "string" ->
             error.type = "UnknownError" /\ error.message = thrown.value
      [] OTHER ->
             /\ error.type = "UnknownError"
             /\ error.message = "Unknown error occurred"

\* C20: a caught error is mapped to the Failure envelope by its kind: while
\* an invocation awaits an upstream call, the Failure the catch block
\* builds from each value the call may reject with reports that value; and
\* the Failure an invocation has returned reports a value the upstream
\* client rejected with or an error the handler raised itself.
CaughtErrorIsReported ==
    \A i \in Invocations :
        /\ pc[i] \in {"main", "upload"} =>
               \A e \in ThrownValues :
                   Reports(ErrorResult(e, options[i]).error, e)
        /\ HasFailed(i) =>
               \E e \in ThrownValues \cup OwnThrows(i) :
                   Reports(ResultOf(i).error, e)

\* An upstream call rejected with a string, and the invocation has returned
\* the Failure with that string as message and the type UnknownError.
ThrownStringReported ==
    \E i \in Invocations :
        /\ HasFailed(i)
        /\ calls[i] /= <<>>
        /\ ResultOf(i).error.message = "socket hang up"
        /\ ResultOf(i).error.type = "UnknownError"

(***************************************************************************)
(* Properties of the order of the checks                                   *)
(***************************************************************************)
AtLeastOneFile == "At least one file is required for file analysis"

\* The variants with more than one local check, and how many they have:
\* the required fields, and for file_analysis the file list after the
\* prompt.
OrderedVariants == {"file_search", "file_search_with_image", "file_analysis"}

ChecksOf(op) ==
    IF op = "file_analysis" THEN 1..2 ELSE DOMAIN RequiredFields(op)

\* file_base64_array is absent, empty text or an empty array.
FileListMissing(o) ==
    \/ ~Has(o, "file_base64_array")
    \/ o.file_base64_array \in {Str(<<>>), Arr(<<>>)}

\* What check k of the variant looks for is missing from the option bag.
CheckUnmet(o, op, k) ==
    IF op = "file_analysis" /\ k = 2 THEN FileListMissing(o)
    ELSE Unmet(o, op, k)

\* The message is the one of check k of the variant.
CheckReported(message, op, k) ==
    IF op = "file_analysis" /\ k = 2 THEN message = AtLeastOneFile
    ELSE NamesFields(message, RequiredFields(op)[k], op)

\* The checks of its variant that the request of the invocation fails.
FailedChecks(i) ==
    LET op == operation_type(options[i]) IN
    {k \in ChecksOf(op) : CheckUnmet(options[i], op, k)}

\* C21: first missing field wins: file_search checks search_query then
\* vector_store_ids, file_search_with_image checks search_query, then
\* vector_store_ids, then the image source, file_analysis checks
\* file_analysis_prompt then the file list; a request that fails one or
\* more of these checks returns the Failure whose message is the one of the
\* first failed check in that order, and of no other check.
FirstFailedCheckWins ==
    \A i \in Invocations :
        LET op == operation_type(options[i]) IN
        (/\ Credentialed(i)
         /\ Ended(i)
         /\ op \in OrderedVariants \cap Variants(revision)
         /\ FailedChecks(i) /= {}) =>
            /\ HasFailed(i)
            /\ calls[i] = <<>>
            /\ \A k \in ChecksOf(op) :
                   CheckReported(ResultOf(i).error.message, op, k)
                       <=> k = Least(FailedChecks(i))

\* A file_search_with_image request without query, vector stores and image
\* has been rejected with the message of the query alone.
ThreeMissingOneReported ==
    \E i \in Invocations :
        /\ Credentialed(i)
        /\ operation_type(options[i]) = "file_search_with_image"
        /\ FailedChecks(i) = {1, 2, 3}
        /\ HasFailed(i)
        /\ ResultOf(i).error.message =
               "Search query is required for file search with image"

(***************************************************************************)
(* Properties of the order of the upstream calls                           *)
(***************************************************************************)
\* The phase of file_analysis_with_vector_search an upstream call belongs
\* to: uploads, main call, deletes.
Phase(call) ==
    CASE call.api = "files.create" -> 1
      [] call.api = "responses.create" -> 2
      [] call.api = "files.del" -> 3

\* The calls of the invocation to the api.
CallsTo(i, api) == {k \in DOMAIN calls[i] : calls[i][k].api = api}

\* C22: the upstream calls of a file_analysis_with_vector_search invocation
\* are sequential and ordered: the log holds uploads, then at most one main
\* call, then deletes; the one call that may be outstanding is the last of
\* the log, which the invocation awaits; when the main call is issued every
\* upload has returned its file id, and when a delete is issued the main
\* call has returned.
CallsAreSequential ==
    \A i \in Invocations :
        VectorAnalysis(i) =>
            LET uploads == Cardinality(CallsTo(i, "files.create"))
                mains == Cardinality(CallsTo(i, "responses.create"))
                deletes == Cardinality(CallsTo(i, "files.del"))
                ids == Len(locals[i].uploadedFileIds)
            IN  /\ \A a, b \in DOMAIN calls[i] :
                       a < b => Phase(calls[i][a]) <= Phase(calls[i][b])
                /\ mains <= 1
                /\ pc[i] = "upload" =>
                       /\ LastCall(i).api = "files.create"
                       /\ uploads = ids + 1 /\ mains = 0 /\ deletes = 0
                /\ pc[i] = "main" =>
                       /\ LastCall(i).api = "responses.create"
                       /\ uploads = ids /\ deletes = 0
                       /\ ~MainCallReturned(i)
                /\ pc[i] = "delete" =>
                       /\ LastCall(i).api = "files.del"
                       /\ uploads = ids /\ deletes = locals[i].d + 1
                       /\ MainCallReturned(i)
                /\ mains = 1 => uploads = ids
                /\ deletes > 0 => MainCallReturned(i)
                /\ Ended(i) /\ deletes > 0 => deletes = ids

\* An invocation has made two uploads, then the main call, then two
\* deletes, and has returned.
UploadsMainDeletes ==
    \E i \in Invocations :
        /\ VectorAnalysis(i)
        /\ HasReturned(i)
        /\ [k \in DOMAIN calls[i] |-> calls[i][k].api] =
               <<"files.create", "files.create", "responses.create",
                 "files.del", "files.del">>

(***************************************************************************)
(* Properties of the response format                                       *)
(***************************************************************************)
\* C23: the missing-schema rejection never reaches the network: a request
\* for a variant that shapes its response, with every required field, that
\* asks for json_schema without a schema makes no upstream call, uploads
\* included, and ends in a Failure.
MissingSchemaStaysLocal ==
    \A i \in Invocations :
        SchemaOmitted(i) =>
            /\ calls[i] = <<>>
            /\ Ended(i) => HasFailed(i)

\* A file_analysis_with_vector_search request without a schema was rejected
\* for the missing schema after its file had been uploaded.
UploadedBeforeSchemaCheck ==
    \E i \in Invocations :
        /\ SchemaOmitted(i)
        /\ VectorAnalysis(i)
        /\ HasFailed(i)
        /\ SaysSchemaRequired(ResultOf(i).error.message)
        /\ Len(Uploads(i)) > 0
        /\ Len(Uploads(i)) = Len(calls[i])

\* In the variants whose schema check precedes every upstream call (all
\* but file_analysis_with_vector_search), the rejection is local.
MissingSchemaLocalWithoutUploads ==
    \A i \in Invocations :
        (SchemaOmitted(i) /\ ~VectorAnalysis(i)) =>
            /\ calls[i] = <<>>
            /\ Ended(i) => HasFailed(i)

\* The request asks for one of the two shaped formats.
AsksShaping(o) == response_format(o) \in {"json_object", "json_schema"}

\* C24: response shaping is the same in every variant that issues a
\* Responses request: the parameters of the request carry a response_format
\* directive exactly when the option response_format is json_object or
\* json_schema, and json_schema without a schema ends in a Failure.
ShapingIsUniform ==
    \A i \in Invocations :
        (Credentialed(i)
            /\ operation_type(options[i]) \in ResponsesVariants(revision)) =>
            /\ \A k \in ResponsesCalls(i) :
                   Has(calls[i][k].params, "response_format")
                       <=> AsksShaping(options[i])
            /\ (response_format(options[i]) = "json_schema"
                    /\ ~Has(options[i], "json_schema") /\ Ended(i)) =>
                   HasFailed(i)

\* A file_search request that asks for json_schema, with a schema, got a
\* Success from a Responses call without a response_format directive.
FileSearchUnshaped ==
    \E i \in Invocations :
        /\ operation_type(options[i]) = "file_search"
        /\ response_format(options[i]) = "json_schema"
        /\ Has(options[i], "json_schema")
        /\ HasSucceeded(i)
        /\ \A k \in ResponsesCalls(i) :
               ~Has(calls[i][k].params, "response_format")

\* In the variants with a "Handle response format" block, the directive is
\* sent exactly when asked for, with the type asked for, and json_schema
\* without a schema ends in a Failure; the other variants that issue a
\* Responses request never send a directive.
ShapingWhereHandled ==
    \A i \in Invocations :
        Credentialed(i) =>
            /\ operation_type(options[i]) \in ShapedVariants(revision) =>
                   /\ \A k \in ResponsesCalls(i) :
                          /\ Has(calls[i][k].params, "response_format")
                                 <=> AsksShaping(options[i])
                          /\ AsksShaping(options[i]) =>
                                 calls[i][k].params.response_format.type
                                     = response_format(options[i])
                   /\ (response_format(options[i]) = "json_schema"
                           /\ ~Has(options[i], "json_schema") /\ Ended(i)) =>
                          HasFailed(i)
            /\ operation_type(options[i]) \in
                   ResponsesVariants(revision) \ ShapedVariants(revision) =>
                   \A k \in ResponsesCalls(i) :
                       ~Has(calls[i][k].params, "response_format")

\* A file_analysis request with a schema got a Success from a Responses
\* call that carries the json_schema directive with that schema.
SchemaDirectiveSent ==
    \E i \in Invocations :
        /\ operation_type(options[i]) = "file_analysis"
        /\ response_format(options[i]) = "json_schema"
        /\ Has(options[i], "json_schema")
        /\ HasSucceeded(i)
        /\ \E k \in ResponsesCalls(i) :
               /\ calls[i][k].params.response_format.type = "json_schema"
               /\ calls[i][k].params.response_format.json_schema.schema
                      = options[i].json_schema

(***************************************************************************)
(* Properties of store_response in the earlier revision                    *)
(***************************************************************************)
\* The Success of the earlier revision when store_response is false.
EmptySuccess == [success |-> TRUE, data |-> EmptyObject]

\* C25: in the earlier revision, an invocation whose main call returned and
\* whose result was built returns {success: true, data: {}}, without a
\* response_id, when store_response is false, the main call having been
\* made once, with store:false when it is a Responses call; it returns the
\* full payload of the variant when store_response is true or absent; an
\* invocation that failed returns the Failure whatever the flag.
StoreFlagHidesPayload ==
    \A i \in Invocations :
        (revision = "part_000" /\ HasReturned(i)) =>
            LET o == options[i]
                built == Result(o, locals[i].response, locals[i].files)
            IN  IF MainCallReturned(i) /\ built.kind = "ok"
                THEN /\ Cardinality(MainCalls(i)) = 1
                     /\ \A k \in ResponsesCalls(i) :
                            calls[i][k].params.store = store_response(o)
                     /\ IF store_response(o)
                        THEN ResultOf(i) = built.result
                        ELSE /\ ResultOf(i) = EmptySuccess
                             /\ ~Has(ResultOf(i), "response_id")
                ELSE IsFailure(ResultOf(i))

\* In the earlier revision a text_generation request with store_response
\* false returned the empty Success after its Responses call, made with
\* store:false, had returned a response with an id.
PayloadWithheld ==
    \E i \in Invocations :
        /\ revision = "part_000"
        /\ operation_type(options[i]) = "text_generation"
        /\ Has(options[i], "store_response") /\ ~options[i].store_response
        /\ HasReturned(i)
        /\ ResultOf(i) = EmptySuccess
        /\ locals[i].response.id \in ResponseIds
        /\ \E k \in ResponsesCalls(i) : calls[i][k].params.store = FALSE

(***************************************************************************)
(* Properties of the message list                                          *)
(***************************************************************************)
\* The variants of the revision whose case reads a system-message field.
SystemVariants(rev) ==
    IF rev = "api.ts"
    THEN {"text_generation", "image_analysis", "file_search",
          "file_search_with_image", "file_analysis",
          "file_analysis_with_vector_search"}
    ELSE {"text_generation"}

\* C26: in every variant that has a system-message field, the input of the
\* Responses request is a system message, with the text of the variant's
\* own field, followed by one user message when that field is non-empty,
\* and one user message alone otherwise, whatever the system-message fields
\* of other variants hold; the user message is last.
MessageListShape ==
    \A i \in Invocations :
        operation_type(options[i]) \in SystemVariants(revision) =>
            \A k \in ResponsesCalls(i) :
                LET o == options[i]
                    input == calls[i][k].params.input
                    field == SystemField(revision, operation_type(o))
                IN  /\ input[Len(input)].role = "user"
                    /\ IF TruthyText(o, field)
                       THEN /\ Len(input) = 2
                            /\ input[1] = [role |-> "system",
                                           content |-> o[field]]
                       ELSE Len(input) = 1

\* The system-message fields of the revision that are set in the options
\* and are not the field of the variant.
OtherSystemFields(rev, o) ==
    {f \in DOMAIN o :
        /\ f \in {SystemField(r, op) : r \in Revisions, op \in Variants("api.ts")}
        /\ f /= SystemField(rev, operation_type(o))
        /\ o[f] /= ""}

\* A file_search_with_image request whose own system-message field and
\* the fields of other variants are set has sent its own system message and
\* one user message.
OwnSystemMessageSent ==
    \E i \in Invocations :
        /\ operation_type(options[i]) = "file_search_with_image"
        /\ TruthyText(options[i], "system_message_file_image")
        /\ OtherSystemFields(revision, options[i]) /= {}
        /\ \E k \in ResponsesCalls(i) :
               /\ Len(calls[i][k].params.input) = 2
               /\ calls[i][k].params.input[1].content
                      = options[i].system_message_file_image

\* A file_analysis request without its own system-message field, and with
\* the fields of other variants set, has sent one user message alone.
ForeignSystemMessageUnused ==
    \E i \in Invocations :
        /\ operation_type(options[i]) = "file_analysis"
        /\ ~TruthyText(options[i], "system_message_file_analysis")
        /\ OtherSystemFields(revision, options[i]) /= {}
        /\ \E k \in ResponsesCalls(i) : Len(calls[i][k].params.input) = 1

(***************************************************************************)
(* Termination                                                             *)
(***************************************************************************)
\* An invocation has been made and has not ended.
Invoked == \E i \in Invocations : ~Ended(i)

\* Every invocation has returned a Success or a Failure.
ReturnedWellFormed ==
    \A i \in Invocations :
        /\ HasReturned(i)
        /\ IsSuccess(ResultOf(i)) \/ IsFailure(ResultOf(i))

\* C27: termination: when every upstream call eventually returns or
\* throws, every invocation eventually finishes with a well-formed result,
\* whatever the option bag and however many files it lists.
EveryInvocationReturns == Invoked ~> ReturnedWellFormed

\* Every invocation has ended, by a return or by a throw.
AllEnded == \A i \in Invocations : Ended(i)

\* When every upstream call eventually returns or throws, every invocation
\* eventually ends: the upload loop and the delete loop run once per entry.
EveryInvocationEnds == Invoked ~> AllEnded

\* An invocation with the credential has been made and has not ended.
InvokedWithKey == \E i \in Invocations : ~Ended(i) /\ Credentialed(i)

\* When every upstream call eventually returns or throws, every invocation
\* with the credential eventually returns a Success or a Failure.
CredentialedInvocationReturns == InvokedWithKey ~> ReturnedWellFormed

\* A file_analysis_with_vector_search invocation that uploaded two files
\* and attempted two deletes has returned a Success.
BothLoopsEnded ==
    \E i \in Invocations :
        /\ VectorAnalysis(i)
        /\ HasSucceeded(i)
        /\ Len(Uploads(i)) = 2
        /\ Cardinality(CallsTo(i, "files.del")) = 2

\* An invocation without the credential has ended without a result.
EndedWithoutResult ==
    \E i \in Invocations :
        /\ ~Credentialed(i)
        /\ Ended(i)
        /\ ~HasReturned(i)

(***************************************************************************)
(* Properties of the image source                                          *)
(***************************************************************************)
ImageVariants == {"image_analysis", "file_search_with_image"}

\* The input_image items of the user content of a Responses call.
ImageItems(call) ==
    {n \in DOMAIN UserContent(call) : UserContent(call)[n].type = "input_image"}

\* The URL is the base64 text itself, when that is a data URL of an image,
\* or the data URL of one of the image formats over the text without its
\* whitespace.
DataUrlOf(url, image_base64) ==
    IF StartsWith(image_base64, <<"d", "a", "t", "a", ":", "i", "m", "a", "g", "e", "/">>)
    THEN url = image_base64
    ELSE \E format \in {<<"j", "p", "e", "g">>, <<"p", "n", "g">>, <<"w", "e", "b", "p">>, <<"g", "i", "f">>} :
             url = <<"d", "a", "t", "a", ":", "i", "m", "a", "g", "e", "/">> \o format \o <<";", "b", "a", "s", "e", "6", "4", ",">>
                       \o StripWhitespace(image_base64)

\* C28: in image_analysis and file_search_with_image the user content of
\* the Responses request holds exactly one input_image item; with a
\* non-empty image_url the item is that URL, and image_base64 is neither
\* used nor validated; image_base64 is used only when image_url is empty,
\* and the item is then a data URL built from it.
ImageSourceSelected ==
    \A i \in Invocations :
        operation_type(options[i]) \in ImageVariants =>
            LET o == options[i] IN
            /\ \A k \in ResponsesCalls(i) :
                   LET call == calls[i][k] IN
                   /\ Cardinality(ImageItems(call)) = 1
                   /\ \A n \in ImageItems(call) :
                          LET url == UserContent(call)[n].image_url IN
                          IF TruthyChars(o, "image_url")
                          THEN url = o.image_url
                          ELSE /\ TruthyChars(o, "image_base64")
                               /\ DataUrlOf(url, o.image_base64)
            /\ (TruthyChars(o, "image_url") /\ HasFailed(i)) =>
                   ResultOf(i).error.message /= InvalidBase64
            /\ (Credentialed(i) /\ ~Incompletely(i) /\ ~SchemaOmitted(i)
                    /\ TruthyChars(o, "image_url") /\ pc[i] /= "entry") =>
                   ResponsesCalls(i) /= {}

\* A request with an image_url and an image_base64 that is not base64 got
\* a Success from a Responses call whose one image is the URL.
UrlUsedBase64Unchecked ==
    \E i \in Invocations :
        /\ operation_type(options[i]) \in ImageVariants
        /\ TruthyChars(options[i], "image_url")
        /\ TruthyChars(options[i], "image_base64")
        /\ ~base64Regex(StripWhitespace(options[i].image_base64))
        /\ HasSucceeded(i)
        /\ \E k \in ResponsesCalls(i) :
               \A n \in ImageItems(calls[i][k]) :
                   UserContent(calls[i][k])[n].image_url = options[i].image_url

\* A request with an empty image_url and a JPEG in base64 has sent the
\* data URL of the JPEG.
Base64SentAsDataUrl ==
    \E i \in Invocations :
        /\ operation_type(options[i]) = "image_analysis"
        /\ Has(options[i], "image_url") /\ options[i].image_url = <<>>
        /\ \E k \in ResponsesCalls(i) :
               \E n \in ImageItems(calls[i][k]) :
                   UserContent(calls[i][k])[n].image_url
                       = <<"d", "a", "t", "a", ":", "i", "m", "a", "g", "e", "/", "j", "p", "e", "g", ";", "b", "a", "s", "e", "6", "4", ",">>
                             \o StripWhitespace(options[i].image_base64)

(***************************************************************************)
(* Properties of the list of files                                         *)
(***************************************************************************)
\* The number of input_file and input_image items of the user content of a
\* Responses call.
Attached(call) ==
    Cardinality({n \in DOMAIN UserContent(call) :
                     UserContent(call)[n].type \in {"input_file", "input_image"}})

\* C29: in file_analysis and file_analysis_with_vector_search the
\* processed_files_count of a Success is the number of input_file and
\* input_image items attached to the Responses request of the invocation.
ProcessedCountIsAttached ==
    \A i \in Invocations :
        (operation_type(options[i]) \in FileVariants /\ HasSucceeded(i)) =>
            \A k \in ResponsesCalls(i) :
                ResultOf(i).data.processed_files_count
                    = Num(Attached(calls[i][k]))

\* A Success reports more processed files than its request attached.
SkippedEntryCounted ==
    \E i \in Invocations :
        /\ operation_type(options[i]) \in FileVariants
        /\ HasSucceeded(i)
        /\ locals[i].files.t = "array"
        /\ \E k \in ResponsesCalls(i) :
               /\ ResultOf(i).data.processed_files_count
                      = Num(Len(locals[i].files.v))
               /\ Attached(calls[i][k]) < Len(locals[i].files.v)

\* A file_analysis Success reports no count at all: the parsed text was
\* not an array.
CountUndefined ==
    \E i \in Invocations :
        /\ operation_type(options[i]) = "file_analysis"
        /\ HasSucceeded(i)
        /\ ResultOf(i).data.processed_files_count = Undefined
        /\ \E k \in ResponsesCalls(i) : Attached(calls[i][k]) = 0

\* The processed_files_count of a Success is the length of the parsed list
\* of files, whatever was attached.
ProcessedCountIsListLength ==
    \A i \in Invocations :
        (operation_type(options[i]) \in FileVariants /\ HasSucceeded(i)) =>
            ResultOf(i).data.processed_files_count = LengthOf(locals[i].files)

\* The invocation has parsed its list of files.
ListParsed(i) ==
    /\ Credentialed(i)
    /\ operation_type(options[i]) = "file_analysis"
    /\ TruthyText(options[i], "file_analysis_prompt")
    /\ pc[i] /= "entry"

\* C30: file_analysis reaches the upstream call only with at least one
\* file: when file_base64_array is absent, an empty array, or a string
\* whose parsed value holds no file entries, be it an empty array or a
\* JSON value that is no array, the invocation makes no upstream call and
\* returns the Failure 'At least one file is required for file analysis'.
NoFilesNoCall ==
    \A i \in Invocations :
        (ListParsed(i)
            /\ (locals[i].files.t /= "array" \/ locals[i].files.v = <<>>)) =>
            /\ calls[i] = <<>>
            /\ HasFailed(i)
            /\ ResultOf(i).error.message = AtLeastOneFile

\* A file_analysis request whose file_base64_array is the text of a JSON
\* value that is no array got a Success from a Responses call that
\* attaches no file.
CalledWithoutFiles ==
    \E i \in Invocations :
        /\ ListParsed(i)
        /\ Has(options[i], "file_base64_array")
        /\ options[i].file_base64_array \in {Str(<<"{", "}">>), Str(<<"1", "2", "3">>)}
        /\ HasSucceeded(i)
        /\ \E k \in ResponsesCalls(i) : Attached(calls[i][k]) = 0

\* A file_analysis request whose file_base64_array is the text of JSON null
\* was failed for reading the length of null.
NullListTypeError ==
    \E i \in Invocations :
        /\ ListParsed(i)
        /\ Has(options[i], "file_base64_array")
        /\ options[i].file_base64_array = Str(<<"n", "u", "l", "l">>)
        /\ HasFailed(i)
        /\ calls[i] = <<>>
        /\ ResultOf(i).error.message /= AtLeastOneFile

\* When the parsed list of files is an empty array (file_base64_array
\* absent, empty, an empty array, or the text of one), the invocation makes
\* no upstream call and returns the Failure of the missing file.
EmptyListRejected ==
    \A i \in Invocations :
        (ListParsed(i) /\ locals[i].files = Arr(<<>>)) =>
            /\ calls[i] = <<>>
            /\ HasFailed(i)
            /\ ResultOf(i).error.message = AtLeastOneFile
=============================================================================
